---- MODULE Spec2Model ----
(***************************************************************************)
(* A model of the keyboard layout generator (explore_layouts.rs, lib.rs).  *)
(*                                                                         *)
(* Conventions.                                                            *)
(*  - Slots are numbered 1..n here and 0..n-1 in the source; the order of  *)
(*    the slots is the same.                                               *)
(*  - A Keycode (device_query) is the string of its variant name; a char   *)
(*    is a one-character string (the grave accent is "backtick").          *)
(*  - A Key (enum Key) is a record [kind, normal, shifted]; kind is the    *)
(*    variant name, and normal/shifted are "" for the variants that carry  *)
(*    no chars.                                                            *)
(*  - An f64 score is an integer number of 1/ScoreScale units; a          *)
(*    temperature is an integer number of 1/TempScale units; a product or  *)
(*    quotient is rounded to a unit, as f64 rounds to a representable      *)
(*    value.                                                               *)
(*  - A panic (unwrap on None, unimplemented!, panic!) is the value Abort  *)
(*    of the operator that models the panicking function.                  *)
(***************************************************************************)
EXTENDS Integers, Sequences, FiniteSets, TLC

Abort == "abort"

Min(S) == CHOOSE x \in S : \A y \in S : x <= y
Max(S) == CHOOSE x \in S : \A y \in S : x >= y

(* The first arm of a match that fits: tbl is the list of arms <<pattern, value>>. *)
MatchArm(tbl, x) ==
    LET hits == {i \in DOMAIN tbl : tbl[i][1] = x}
    IN  IF hits = {} THEN Abort ELSE tbl[Min(hits)][2]

(***************************************************************************)
(* enum Key and its conversions                                            *)
(***************************************************************************)
FunctionKeys ==
    << <<"Backspace", "Backspace">>, <<"Tab", "Tab">>, <<"Enter", "Enter">>,
       <<"CapsLock", "CapsLock">>, <<"LShift", "LShift">>, <<"RShift", "RShift">>,
       <<"LControl", "LCtrl">>, <<"RControl", "RCtrl">>, <<"LAlt", "LAlt">>,
       <<"RAlt", "RAlt">>, <<"LMeta", "LMeta">>, <<"RMeta", "RMeta">>,
       <<"Space", "Space">>, <<"Escape", "Escape">>, <<"Home", "Home">>,
       <<"End", "End">>, <<"PageUp", "PageUp">>, <<"PageDown", "PageDown">>,
       <<"Left", "Left">>, <<"Right", "Right">>, <<"Up", "Up">>,
       <<"Down", "Down">>, <<"Delete", "Delete">> >>

LowerChars ==
    << <<"A", "a">>, <<"B", "b">>, <<"C", "c">>, <<"D", "d">>, <<"E", "e">>,
       <<"F", "f">>, <<"G", "g">>, <<"H", "h">>, <<"I", "i">>, <<"J", "j">>,
       <<"K", "k">>, <<"L", "l">>, <<"M", "m">>, <<"N", "n">>, <<"O", "o">>,
       <<"P", "p">>, <<"Q", "q">>, <<"R", "r">>, <<"S", "s">>, <<"T", "t">>,
       <<"U", "u">>, <<"V", "v">>, <<"W", "w">>, <<"X", "x">>, <<"Y", "y">>,
       <<"Z", "z">> >>

DigitChars ==
    << <<"Key0", "0">>, <<"Key1", "1">>, <<"Key2", "2">>, <<"Key3", "3">>,
       <<"Key4", "4">>, <<"Key5", "5">>, <<"Key6", "6">>, <<"Key7", "7">>,
       <<"Key8", "8">>, <<"Key9", "9">> >>

PunctChars ==
    << <<"Minus", "-">>, <<"Equal", "=">>, <<"LeftBracket", "[">>,
       <<"RightBracket", "]">>, <<"BackSlash", "\\">>, <<"Semicolon", ";">>,
       <<"Apostrophe", "'">>, <<"Comma", ",">>, <<"Dot", ".">>,
       <<"Slash", "/">>, <<"Grave", "backtick">> >>

(* fn keycode_to_char: the arms <<Keycode, char>>. *)
KeycodeToCharArms == LowerChars \o DigitChars \o PunctChars \o << <<"Space", " ">> >>

KeycodeToCharFn ==
    [c \in {KeycodeToCharArms[i][1] : i \in DOMAIN KeycodeToCharArms} |->
        MatchArm(KeycodeToCharArms, c)]

keycode_to_char(code) ==
    IF code \in DOMAIN KeycodeToCharFn THEN KeycodeToCharFn[code] ELSE Abort

(* fn default_shifted: the arms <<char, char>>. *)
DefaultShiftedArms ==
    [i \in DOMAIN LowerChars |-> <<LowerChars[i][2], LowerChars[i][1]>>] \o
    << <<"0", ")">>, <<"1", "!">>, <<"2", "@">>, <<"3", "#">>, <<"4", "$">>,
       <<"5", "%">>, <<"6", "^">>, <<"7", "&">>, <<"8", "*">>, <<"9", "(">>,
       <<"-", "_">>, <<"=", "+">>, <<"[", "{">>, <<"]", "}">>, <<"\\", "|">>,
       <<";", ":">>, <<"'", "\"">>, <<",", "<">>, <<".", ">">>, <<"/", "?">>,
       <<"backtick", "~">> >>

DefaultShiftedFn ==
    [c \in {DefaultShiftedArms[i][1] : i \in DOMAIN DefaultShiftedArms} |->
        MatchArm(DefaultShiftedArms, c)]

(* default_shifted with the symbols of the digits 1 and 2 exchanged. *)
DefaultShiftedDigitsCrossed(c) ==
    IF c = "1" THEN "@"
    ELSE IF c = "2" THEN "!"
    ELSE IF c \in DOMAIN DefaultShiftedFn THEN DefaultShiftedFn[c] ELSE Abort
(* fn default_shifted *)
default_shifted(c) ==
    IF c \in DOMAIN DefaultShiftedFn THEN DefaultShiftedFn[c] ELSE Abort

(* fn char_to_keycode: the arms <<char, Keycode>>. *)
CharToKeycodeArms ==
    [i \in DOMAIN LowerChars |-> <<LowerChars[i][2], LowerChars[i][1]>>] \o
    [i \in DOMAIN LowerChars |-> <<LowerChars[i][1], LowerChars[i][1]>>] \o
    [i \in DOMAIN DigitChars |-> <<DigitChars[i][2], DigitChars[i][1]>>] \o
    << <<"!", "Key1">>, <<"@", "Key2">>, <<"#", "Key3">>, <<"$", "Key4">>,
       <<"%", "Key5">>, <<"^", "Key6">>, <<"&", "Key7">>, <<"*", "Key8">>,
       <<"(", "Key9">>, <<")", "Key0">>,
       <<"-", "Minus">>, <<"_", "Minus">>, <<"=", "Equal">>, <<"+", "Equal">>,
       <<"[", "LeftBracket">>, <<"{", "LeftBracket">>,
       <<"]", "RightBracket">>, <<"}", "RightBracket">>,
       <<"\\", "BackSlash">>, <<"|", "BackSlash">>,
       <<";", "Semicolon">>, <<":", "Semicolon">>,
       <<"'", "Apostrophe">>, <<"\"", "Apostrophe">>,
       <<",", "Comma">>, <<"<", "Comma">>, <<".", "Dot">>, <<">", "Dot">>,
       <<"/", "Slash">>, <<"?", "Slash">>, <<" ", "Space">>,
       <<"backtick", "Grave">>, <<"~", "Grave">> >>

CharToKeycodeFn ==
    [c \in {CharToKeycodeArms[i][1] : i \in DOMAIN CharToKeycodeArms} |->
        MatchArm(CharToKeycodeArms, c)]

char_to_keycode(c) ==
    IF c \in DOMAIN CharToKeycodeFn THEN CharToKeycodeFn[c] ELSE Abort

NormalKey(normal, shifted) == [kind |-> "Normal", normal |-> normal, shifted |-> shifted]
FnKey(name) == [kind |-> name, normal |-> "", shifted |-> ""]

(* Key::from_char_default_shifted, and fn key. *)
from_char_default_shifted(c) == NormalKey(c, default_shifted(c))
key(c) == from_char_default_shifted(c)

FnKeyCodeFn ==
    [v \in {FunctionKeys[i][2] : i \in DOMAIN FunctionKeys} |->
        LET i == CHOOSE i \in DOMAIN FunctionKeys : FunctionKeys[i][2] = v
        IN  FunctionKeys[i][1]]

(* Key::keycode *)
keycode(k, shift) ==
    IF k.kind = "Normal"
    THEN IF shift THEN char_to_keycode(k.shifted) ELSE char_to_keycode(k.normal)
    ELSE FnKeyCodeFn[k.kind]

(* The closure of Layout::gen that turns a physical key's code into a Key. *)
GenKeyArms(code) ==
    LET fk == MatchArm(FunctionKeys, code)
    IN  IF fk # Abort THEN FnKey(fk)
        ELSE NormalKey(keycode_to_char(code), default_shifted(keycode_to_char(code)))

(* Every Keycode the keyboard description can name (map_str_to_keycode). *)
Keycodes ==
    {FunctionKeys[i][1] : i \in DOMAIN FunctionKeys} \cup DOMAIN KeycodeToCharFn

GenKeyFn == [code \in Keycodes |-> GenKeyArms(code)]

GenKey(code) == GenKeyFn[code]

(***************************************************************************)
(* struct Layout { keys, key_map } and its operations                      *)
(***************************************************************************)
Range(f) == {f[i] : i \in DOMAIN f}

(* What an index-valued function yields where the source panics (the slots are 1..n). *)
NoIndex == 0

(* HashMap::insert *)
MapInsert(m, k, v) == [x \in (DOMAIN m) \cup {k} |-> IF x = k THEN v ELSE m[x]]

EmptyMap == [x \in {} |-> 0]

RECURSIVE NewFrom(_, _, _)
NewFrom(keys, i, key_map) ==
    IF i > Len(keys) THEN key_map
    ELSE NewFrom(keys, i + 1, MapInsert(key_map, keys[i], i))

(* Layout::new *)
LayoutNew(keys) == [keys |-> keys, key_map |-> NewFrom(keys, 1, EmptyMap)]

(* Layout::swap without its second key_map.insert. *)
SwapOneInsert(l, i, j) ==
    LET keys2 == [l.keys EXCEPT ![i] = l.keys[j], ![j] = l.keys[i]]
    IN  [keys |-> keys2, key_map |-> MapInsert(l.key_map, keys2[i], i)]

(* Layout::swap with keys[i] overwritten before it is copied to keys[j]. *)
SwapLosesKey(l, i, j) ==
    LET keys2 == [l.keys EXCEPT ![i] = l.keys[j]]
        m1 == MapInsert(l.key_map, keys2[i], i)
        m2 == MapInsert(m1, keys2[j], j)
    IN  [keys |-> keys2, key_map |-> m2]

(* Layout::swap *)
Swap(l, i, j) ==
    LET keys2 == [l.keys EXCEPT ![i] = l.keys[j], ![j] = l.keys[i]]
        m1 == MapInsert(l.key_map, keys2[i], i)
        m2 == MapInsert(m1, keys2[j], j)
    IN  [keys |-> keys2, key_map |-> m2]

(* Layout::get *)
Get(l, k) == IF k \in DOMAIN l.key_map THEN l.key_map[k] ELSE NoIndex

(* The pool of Layout::gen before the shuffle. *)
GenPool(config) == [i \in DOMAIN config.keys |-> GenKey(config.keys[i].code)]

(* The orders in which the elements of S can be met: a shuffle, or the
   iteration order of a HashSet. *)
Orderings(S) ==
    {p \in [1..Cardinality(S) -> S] : \A a, b \in 1..Cardinality(S) : p[a] = p[b] => a = b}

(* Layout::gen, the shuffle being the permutation perm of the slots. *)
Gen(config, perm) ==
    LET pool == GenPool(config)
    IN  LayoutNew([i \in DOMAIN pool |-> pool[perm[i]]])

(* find_duplicate_key_index that returns the earlier index of the pair. *)
FindDuplicateFirstIndex(keys) ==
    LET firsts == {i \in DOMAIN keys : \E j \in DOMAIN keys : i < j /\ keys[i] = keys[j]}
    IN  IF firsts = {} THEN NoIndex ELSE Min(firsts)

(* find_duplicate_key_index that compares neighbouring slots only. *)
FindAdjacentDuplicate(keys) ==
    LET firsts == {i \in DOMAIN keys : i + 1 \in DOMAIN keys /\ keys[i] = keys[i + 1]}
    IN  IF firsts = {} THEN NoIndex ELSE Min(firsts) + 1

(* fn find_duplicate_key_index *)
find_duplicate_key_index(keys) ==
    LET firsts == {i \in DOMAIN keys : \E j \in DOMAIN keys : i < j /\ keys[i] = keys[j]}
    IN  IF firsts = {} THEN NoIndex
        ELSE LET i == Min(firsts)
             IN  Min({j \in DOMAIN keys : i < j /\ keys[i] = keys[j]})

RECURSIVE FixFrom(_, _, _)
FixFrom(child, order, n) ==
    IF n > Len(order) THEN [panicked |-> FALSE, keys |-> child]
    ELSE LET dupe_i == find_duplicate_key_index(child)
         IN  IF dupe_i = NoIndex THEN [panicked |-> TRUE, keys |-> child]
             ELSE FixFrom([child EXCEPT ![dupe_i] = order[n]], order, n + 1)

missing_keys(child, parent) == Range(parent) \ Range(child)

(* fix_missing_keys that repairs the first missing key only. *)
FixFirstOnly(child, parent, order) ==
    FixFrom(child, SubSeq(order, 1, Min({1, Len(order)})), 1)

(* fn fix_missing_keys, the HashSet difference being iterated in the order `order`. *)
fix_missing_keys(child, parent, order) == FixFrom(child, order, 1)

(* child1 that takes the key of the other parent from the slot after i. *)
CrossChild1FromNextSlot(self, other, coin) ==
    [i \in 1..Min({Len(self.keys), Len(other.keys)}) |->
        IF coin[i] THEN self.keys[i] ELSE other.keys[(i % Len(other.keys)) + 1]]

(* The children of Layout::crossover before the repair; coin[i] is gen_bool(0.5) at slot i. *)
CrossChild1(self, other, coin) ==
    [i \in 1..Min({Len(self.keys), Len(other.keys)}) |->
        IF coin[i] THEN self.keys[i] ELSE other.keys[i]]

CrossChild2(self, other, coin) ==
    [i \in 1..Min({Len(self.keys), Len(other.keys)}) |->
        IF coin[i] THEN other.keys[i] ELSE self.keys[i]]

(* Layout::crossover: [panicked, child1, child2] *)
Crossover(self, other, coin, order1, order2) ==
    LET fix1 == fix_missing_keys(CrossChild1(self, other, coin), self.keys, order1)
        fix2 == fix_missing_keys(CrossChild2(self, other, coin), self.keys, order2)
    IN  [panicked |-> fix1.panicked \/ fix2.panicked,
         child1 |-> LayoutNew(fix1.keys),
         child2 |-> LayoutNew(fix2.keys)]

(* The pairs (i, j), i < j, in the order of the two loops of Layout::mutate. *)
RECURSIVE PairsFrom(_, _, _)
PairsFrom(n, i, j) ==
    IF i > n THEN << >>
    ELSE IF j > n THEN PairsFrom(n, i + 1, i + 2)
    ELSE << <<i, j>> >> \o PairsFrom(n, i, j + 1)

(* The largest keyboard of the genetic operators' runs. *)
MaxSlots == 4

MutatePairsFn == [n \in 0..MaxSlots |-> PairsFrom(n, 1, 2)]

(* The pairs of Layout::mutate with the inner loop stopped after one turn. *)
MutateNeighbourPairs(n) == SelectSeq(MutatePairsFn[n], LAMBDA p : p[2] = p[1] + 1)

(* for i in 0..len { for j in (i + 1)..len { .. } } *)
MutatePairs(n) == MutatePairsFn[n]

RECURSIVE MutateFrom(_, _, _, _)
MutateFrom(l, pairs, flips, n) ==
    IF n > Len(pairs) THEN l
    ELSE MutateFrom(IF flips[n] THEN Swap(l, pairs[n][1], pairs[n][2]) ELSE l,
                    pairs, flips, n + 1)

(* Layout::mutate; flips[n] is the outcome of the n-th gen_bool(rate). *)
Mutate(l, flips) == MutateFrom(l, MutatePairs(Len(l.keys)), flips, 1)

(***************************************************************************)
(* The physical keyboard (lib.rs) and the frequency tables (struct Stats)  *)
(***************************************************************************)
(* parse_score divides the number of the description by 100.0; a PhysicalKey's
   and a FingerConfig's score is kept here as that number (1/PctScale units). *)
PctScale == 100

(* The unit of a score: 1/ScoreScale.  A key score times a finger score is
   a whole number of these units. *)
ScoreScale == PctScale * PctScale

(* The resolution of a distance: 1/DistScale. *)
DistScale == 1000

Hands == {"Left", "Right"}
FingerKinds == {"Pinky", "Ring", "Middle", "Index", "Thumb"}

Finger(hand, kind) == [hand |-> hand, finger |-> kind]

(* Finger::all *)
AllFingers == {Finger(h, k) : h \in Hands, k \in FingerKinds}

PhysicalKey(code, finger, score, c, r) ==
    [code |-> code, finger |-> finger, score |-> score, position |-> <<c, r>>]

(* HashMap::get(..).unwrap_or(&0) *)
(* A lookup that counts an absent entry as one use. *)
CountDefaultsToOne(counts, k) == IF k \in DOMAIN counts THEN counts[k] ELSE 1

(* counts.get(&k).unwrap_or(&0) *)
CountOf(counts, k) == IF k \in DOMAIN counts THEN counts[k] ELSE 0

RECURSIVE SumTo(_, _)
SumTo(f, n) == IF n = 0 THEN 0 ELSE f[n] + SumTo(f, n - 1)

(* The sum of the values of a sequence; g names the one value of f summed over. *)
SumSeq(f) == CHOOSE sum \in {SumTo(g, Len(g)) : g \in {f}} : TRUE

RECURSIVE SumOver(_, _)
SumOver(f, S) ==
    IF S = {} THEN 0
    ELSE LET x == CHOOSE x \in S : TRUE IN f[x] + SumOver(f, S \ {x})

(* The largest r with r * r <= x, for lo * lo <= x < (hi + 1) * (hi + 1). *)
RECURSIVE ISqrtBetween(_, _, _)
ISqrtBetween(x, lo, hi) ==
    IF lo >= hi THEN lo
    ELSE LET mid == (lo + hi + 1) \div 2
         IN  IF mid * mid <= x THEN ISqrtBetween(x, mid, hi)
             ELSE ISqrtBetween(x, lo, mid - 1)

(* f64::sqrt of dx^2 + dy^2, rounded down to the distance unit. *)
SqrtOf(q) == ISqrtBetween(q * DistScale * DistScale, 0, 46340)

(* The square roots of the squared distances of a grid of 8 columns and 4 rows. *)
SqrtTable == [q \in 0..(7 * 7 + 3 * 3) |-> SqrtOf(q)]

SqrtScaled(q) == IF q \in DOMAIN SqrtTable THEN SqrtTable[q] ELSE SqrtOf(q)

(* fn distance *)
distance(key1, key2) ==
    LET dx == key1.position[1] - key2.position[1]
        dy == key1.position[2] - key2.position[2]
    IN  SqrtScaled(dx * dx + dy * dy)

(***************************************************************************)
(* The scoring model                                                       *)
(***************************************************************************)
(* The match on (f1.finger, f2.finger) that sets synergy, in tenths. *)
SynergyArms ==
    << <<{"Pinky"}, 1>>, <<{"Pinky", "Ring"}, 2>>, <<{"Pinky", "Middle"}, 2>>,
       <<{"Pinky", "Index"}, 5>>, <<{"Pinky", "Thumb"}, 6>>,
       <<{"Ring"}, 1>>, <<{"Ring", "Middle"}, 3>>, <<{"Ring", "Index"}, 3>>,
       <<{"Ring", "Thumb"}, 2>>,
       <<{"Middle"}, 2>>, <<{"Middle", "Index"}, 7>>, <<{"Middle", "Thumb"}, 7>>,
       <<{"Index"}, 3>>, <<{"Index", "Thumb"}, 9>>,
       <<{"Thumb"}, 3>> >>

(* The match on (f1.finger, f2.finger) that sets distance_importance, in tenths. *)
DistanceImportanceArms ==
    << <<{"Pinky"}, 10>>, <<{"Pinky", "Ring"}, 9>>, <<{"Pinky", "Middle"}, 8>>,
       <<{"Pinky", "Index"}, 2>>, <<{"Pinky", "Thumb"}, 1>>,
       <<{"Ring"}, 10>>, <<{"Ring", "Middle"}, 9>>, <<{"Ring", "Index"}, 5>>,
       <<{"Ring", "Thumb"}, 1>>,
       <<{"Middle"}, 10>>, <<{"Middle", "Index"}, 7>>, <<{"Middle", "Thumb"}, 1>>,
       <<{"Index"}, 10>>, <<{"Index", "Thumb"}, 2>>,
       <<{"Thumb"}, 10>> >>

TableArm(tbl, x) ==
    LET i == Min({i \in DOMAIN tbl : tbl[i][1] = x}) IN tbl[i][2]

synergy(k1, k2) == TableArm(SynergyArms, {k1, k2})
distance_importance(k1, k2) == TableArm(DistanceImportanceArms, {k1, k2})

(* The divisor of raw_score = 1.0 / (distance + 1.0). *)
RawScoreDivisor(dist) == dist + DistScale

(* consecutive_finger_score of the distance-only model: no synergy factor. *)
CostWithoutSynergy(f1, f2, dist) ==
    IF dist = 0 THEN ScoreScale
    ELSE IF f1.hand # f2.hand THEN ScoreScale
    ELSE LET w == distance_importance(f1.finger, f2.finger)
             raw_score == (ScoreScale * DistScale) \div RawScoreDivisor(dist)
         IN  ((10 - w) * ScoreScale + raw_score * w) \div 10

(* consecutive_finger_score without the early return for two hands. *)
CostIgnoresHands(f1, f2, dist) ==
    IF dist = 0 THEN ScoreScale
    ELSE LET w == distance_importance(f1.finger, f2.finger)
             raw_score == (ScoreScale * DistScale) \div RawScoreDivisor(dist)
             distance_score == ((10 - w) * ScoreScale + raw_score * w) \div 10
         IN  (distance_score * synergy(f1.finger, f2.finger)) \div 10

(* fn consecutive_finger_score; dist in distance units, the result in score units. *)
consecutive_finger_score(f1, f2, dist) ==
    IF dist = 0 THEN ScoreScale
    ELSE IF f1.hand # f2.hand THEN ScoreScale
    ELSE LET w == distance_importance(f1.finger, f2.finger)
             raw_score == (ScoreScale * DistScale) \div RawScoreDivisor(dist)
             distance_score == ((10 - w) * ScoreScale + raw_score * w) \div 10
         IN  (distance_score * synergy(f1.finger, f2.finger)) \div 10

(* fingers.iter().find(|c| c.finger == finger): the index, NoIndex for None. *)
FindFinger(config, finger) ==
    LET hits == {i \in DOMAIN config.fingers : config.fingers[i].finger = finger}
    IN  IF hits = {} THEN NoIndex ELSE Min(hits)

ZipLen(layout, config) == Min({Len(layout.keys), Len(config.keys)})

(* layout_individual_key_score panics: the unwrap of the finger lookup. *)
IndividualPanics(layout, config) ==
    \E i \in 1..ZipLen(layout, config) : FindFinger(config, config.keys[i].finger) = NoIndex

(* layout_individual_key_score that reads the count of the pair (key, key). *)
IndividualFromPairs(layout, stats, config) ==
    SumSeq([i \in 1..ZipLen(layout, config) |->
        config.keys[i].score
            * config.fingers[FindFinger(config, config.keys[i].finger)].score
            * CountOf(stats.consectutive_key_counts,
                      <<keycode(layout.keys[i], FALSE), keycode(layout.keys[i], FALSE)>>)])

(* fn layout_individual_key_score *)
layout_individual_key_score(layout, stats, config) ==
    SumSeq([i \in 1..ZipLen(layout, config) |->
        config.keys[i].score
            * config.fingers[FindFinger(config, config.keys[i].finger)].score
            * CountOf(stats.individual_key_counts, keycode(layout.keys[i], FALSE))])

(* The term of the pair of slots (i, i + 1) costed with the finger of slot i + 1. *)
TermUsesSecondFinger(layout, stats, config, i) ==
    LET pkey1 == config.keys[i]
        pkey2 == config.keys[i + 1]
        count == CountOf(stats.consectutive_key_counts,
                         <<keycode(layout.keys[i], FALSE), keycode(layout.keys[i + 1], FALSE)>>)
    IN  count * consecutive_finger_score(pkey2.finger, pkey2.finger, distance(pkey1, pkey2))

(* The term of the pair of slots (i, i + 1) costed with the fingers of both slots. *)
TermUsesBothFingers(layout, stats, config, i) ==
    LET pkey1 == config.keys[i]
        pkey2 == config.keys[i + 1]
        count == CountOf(stats.consectutive_key_counts,
                         <<keycode(layout.keys[i], FALSE), keycode(layout.keys[i + 1], FALSE)>>)
    IN  count * consecutive_finger_score(pkey1.finger, pkey2.finger, distance(pkey1, pkey2))

(* layout_consecutive_key_score: the body of its loop for the pair (i, i + 1). *)
ConsecutiveTerm(layout, stats, config, i) ==
    LET pkey1 == config.keys[i]
        pkey2 == config.keys[i + 1]
        count == CountOf(stats.consectutive_key_counts,
                         <<keycode(layout.keys[i], FALSE), keycode(layout.keys[i + 1], FALSE)>>)
    IN  count * consecutive_finger_score(pkey1.finger, pkey1.finger, distance(pkey1, pkey2))

(* layout_consecutive_key_score that zips the keys with themselves (no skip(1)). *)
ConsecutiveNoSkip(layout, stats, config) ==
    SumSeq([i \in 1..Len(layout.keys) |->
        LET pkey1 == config.keys[i]
            count == CountOf(stats.consectutive_key_counts,
                             <<keycode(layout.keys[i], FALSE), keycode(layout.keys[i], FALSE)>>)
        IN  count * consecutive_finger_score(pkey1.finger, pkey1.finger, distance(pkey1, pkey1))])

(* fn layout_consecutive_key_score *)
layout_consecutive_key_score(layout, stats, config) ==
    SumSeq([i \in 1..(Len(layout.keys) - 1) |-> ConsecutiveTerm(layout, stats, config, i)])

(* layout_similarity that compares the unshifted identities only. *)
SimilarityUnshiftedOnly(l1, l2) ==
    [score |-> SumSeq([i \in 1..Min({Len(l1.keys), Len(l2.keys)}) |->
                  IF keycode(l1.keys[i], FALSE) = keycode(l2.keys[i], FALSE) THEN 1 ELSE 0]),
     of |-> Len(l1.keys) * 2]

(* fn layout_similarity: the quotient score / (len * 2) as the pair of its
   numerator and its denominator. *)
layout_similarity(l1, l2) ==
    [score |-> SumSeq([i \in 1..Min({Len(l1.keys), Len(l2.keys)}) |->
                  (IF keycode(l1.keys[i], FALSE) = keycode(l2.keys[i], FALSE) THEN 1 ELSE 0)
                  + (IF keycode(l1.keys[i], TRUE) = keycode(l2.keys[i], TRUE) THEN 1 ELSE 0)]),
     of |-> Len(l1.keys) * 2]

(* enum Intuition: a pair variant is [op, k1, k2]; Or and And are [op, a, b]. *)
PairOps == {"Close", "Symmetric", "SameRow", "SameColumn", "LeftOf", "RightOf", "Above", "Below"}

close(k1, k2) == [op |-> "Close", k1 |-> k1, k2 |-> k2]
symmetric(k1, k2) == [op |-> "Symmetric", k1 |-> k1, k2 |-> k2]
same_row(k1, k2) == [op |-> "SameRow", k1 |-> k1, k2 |-> k2]
same_column(k1, k2) == [op |-> "SameColumn", k1 |-> k1, k2 |-> k2]
left_of(k1, k2) == [op |-> "LeftOf", k1 |-> k1, k2 |-> k2]
right_of(k1, k2) == [op |-> "RightOf", k1 |-> k1, k2 |-> k2]
above(k1, k2) == [op |-> "Above", k1 |-> k1, k2 |-> k2]
below(k1, k2) == [op |-> "Below", k1 |-> k1, k2 |-> k2]
or(a, b) == [op |-> "Or", a |-> a, b |-> b]
and(a, b) == [op |-> "And", a |-> a, b |-> b]

(* fn intuitions *)
intuitions ==
    << and(same_row(FnKey("Left"), FnKey("Right")), left_of(FnKey("Left"), FnKey("Right"))),
       and(same_column(FnKey("Up"), FnKey("Down")), above(FnKey("Up"), FnKey("Down"))),
       or(close(FnKey("Left"), FnKey("Right")), symmetric(FnKey("Left"), FnKey("Right"))),
       or(close(FnKey("Up"), FnKey("Down")), symmetric(FnKey("Up"), FnKey("Down"))),
       or(close(FnKey("PageUp"), FnKey("PageDown")), symmetric(FnKey("PageUp"), FnKey("PageDown"))),
       or(close(key("["), key("]")), symmetric(key("["), key("]"))),
       symmetric(FnKey("LShift"), FnKey("RShift")),
       symmetric(FnKey("LCtrl"), FnKey("RCtrl")),
       close(key("1"), key("2")),
       close(key("2"), key("3")),
       close(key("4"), key("5")),
       close(key("5"), key("6")),
       close(key("7"), key("8")),
       close(key("8"), key("9")),
       close(key("1"), key("4")),
       close(key("2"), key("5")),
       close(key("3"), key("6")),
       close(key("4"), key("7")),
       close(key("5"), key("8")),
       close(key("6"), key("9")) >>

(* fn are_symmetric *)
are_symmetric(config, pos1, pos2) ==
    IF pos1[2] # pos2[2] THEN FALSE
    ELSE LET max == Max({config.keys[i].position[1] : i \in DOMAIN config.keys})
             smaller == Min({pos1[1], pos2[1]})
             larger == Max({pos1[1], pos2[1]})
         IN  max - larger - smaller = 0

(* fn get_physical_key_for_key panics: the unwrap of Layout::get, or the index. *)
PhysicalKeyPanics(layout, config, k) == Get(layout, k) \notin DOMAIN config.keys

(* fn get_physical_key_for_key *)
get_physical_key_for_key(layout, config, k) == config.keys[Get(layout, k)]

(* A pair variant of Intuition::satisfied, the two keys being on the layout. *)
PairSatisfied(int, layout, config) ==
    LET key1 == get_physical_key_for_key(layout, config, int.k1)
        key2 == get_physical_key_for_key(layout, config, int.k2)
    IN  CASE int.op = "Close" -> distance(key1, key2) * 10 < 11 * DistScale
          [] int.op = "Symmetric" -> are_symmetric(config, key1.position, key2.position)
          [] int.op = "SameRow" -> key1.position[2] = key2.position[2]
          [] int.op = "SameColumn" -> key1.position[1] = key2.position[1]
          [] int.op = "LeftOf" -> key1.position[1] < key2.position[1]
          [] int.op = "RightOf" -> key1.position[1] > key2.position[1]
          [] int.op = "Above" -> key1.position[2] < key2.position[2]
          [] int.op = "Below" -> key1.position[2] > key2.position[2]

(* Intuition::satisfied that takes an intuition with a missing key as unsatisfied. *)
RECURSIVE SatisfiedOrFalse(_, _, _)
SatisfiedOrFalse(int, layout, config) ==
    IF int.op \in PairOps
    THEN IF PhysicalKeyPanics(layout, config, int.k1) \/ PhysicalKeyPanics(layout, config, int.k2)
         THEN "false"
         ELSE IF PairSatisfied(int, layout, config) THEN "true" ELSE "false"
    ELSE LET a == SatisfiedOrFalse(int.a, layout, config)
         IN  IF int.op = "Or" /\ a = "true" THEN "true"
             ELSE IF int.op = "And" /\ a = "false" THEN "false"
             ELSE SatisfiedOrFalse(int.b, layout, config)

(* Intuition::satisfied: "true", "false", or Abort where a key lookup panics.
   Or and And evaluate their second operand only when the first does not decide. *)
RECURSIVE satisfied(_, _, _)
satisfied(int, layout, config) ==
    IF int.op \in PairOps
    THEN IF PhysicalKeyPanics(layout, config, int.k1) \/ PhysicalKeyPanics(layout, config, int.k2)
         THEN Abort
         ELSE IF PairSatisfied(int, layout, config) THEN "true" ELSE "false"
    ELSE LET a == satisfied(int.a, layout, config)
         IN  IF a = Abort THEN Abort
             ELSE IF int.op = "Or" /\ a = "true" THEN "true"
             ELSE IF int.op = "And" /\ a = "false" THEN "false"
             ELSE satisfied(int.b, layout, config)

(* fn intuition_score panics *)
IntuitionPanics(layout, config, ints) ==
    \E i \in DOMAIN ints : satisfied(ints[i], layout, config) = Abort

(* intuition_score that credits each satisfied half of an And or an Or. *)
IntuitionScorePerLeaf(layout, config, ints) ==
    SumSeq([i \in DOMAIN ints |->
        IF ints[i].op \in PairOps
        THEN IF satisfied(ints[i], layout, config) = "true" THEN 1 ELSE 0
        ELSE (IF satisfied(ints[i].a, layout, config) = "true" THEN 1 ELSE 0)
           + (IF satisfied(ints[i].b, layout, config) = "true" THEN 1 ELSE 0)])

(* fn intuition_score: the number of satisfied intuitions *)
intuition_score(layout, config, ints) ==
    Cardinality({i \in DOMAIN ints : satisfied(ints[i], layout, config) = "true"})

(* The weight of an intuition in layout_score and in max_possible_score. *)
IntuitionWeight == 100

(* layout_score with the list of intuitions as a parameter. *)
LayoutScoreWith(layout, stats, config, ints) ==
    layout_individual_key_score(layout, stats, config)
        + layout_consecutive_key_score(layout, stats, config)
        + IntuitionWeight * ScoreScale * intuition_score(layout, config, ints)

(* fn layout_score panics *)
ScorePanics(layout, config) ==
    IndividualPanics(layout, config) \/ IntuitionPanics(layout, config, intuitions)

(* fn layout_score *)
layout_score(layout, stats, config) == LayoutScoreWith(layout, stats, config, intuitions)

(* The normalizer without the term of the intuitions. *)
MaxPossibleCountsOnly(stats) ==
    ( SumOver(stats.individual_key_counts, DOMAIN stats.individual_key_counts)
    + SumOver(stats.consectutive_key_counts, DOMAIN stats.consectutive_key_counts) ) * ScoreScale
(* fn max_possible_score *)
max_possible_score(stats) ==
    ( SumOver(stats.individual_key_counts, DOMAIN stats.individual_key_counts)
    + SumOver(stats.consectutive_key_counts, DOMAIN stats.consectutive_key_counts)
    + Len(intuitions) * IntuitionWeight ) * ScoreScale

(***************************************************************************)
(* The keyboards and frequency tables the model runs on                    *)
(***************************************************************************)
(* The Fingers section of the sample description (layout_format.rs). *)
SampleFingers ==
    << [finger |-> Finger("Left", "Pinky"), score |-> 70],
       [finger |-> Finger("Left", "Ring"), score |-> 50],
       [finger |-> Finger("Left", "Middle"), score |-> 80],
       [finger |-> Finger("Left", "Index"), score |-> 100],
       [finger |-> Finger("Left", "Thumb"), score |-> 100],
       [finger |-> Finger("Right", "Thumb"), score |-> 100],
       [finger |-> Finger("Right", "Index"), score |-> 100],
       [finger |-> Finger("Right", "Middle"), score |-> 80],
       [finger |-> Finger("Right", "Ring"), score |-> 50],
       [finger |-> Finger("Right", "Pinky"), score |-> 70] >>

(* The keyboard of the end-to-end example: two Left-Index slots in one row. *)
Example2 ==
    [fingers |-> << [finger |-> Finger("Left", "Index"), score |-> 100] >>,
     keys |-> << PhysicalKey("A", Finger("Left", "Index"), 100, 0, 0),
                 PhysicalKey("B", Finger("Left", "Index"), 100, 1, 0) >>]

(* Two rows of two keys, a printable key, a digit and two function keys. *)
Grid4 ==
    [fingers |-> SampleFingers,
     keys |-> << PhysicalKey("A", Finger("Left", "Pinky"), 75, 0, 0),
                 PhysicalKey("Key1", Finger("Right", "Index"), 100, 1, 0),
                 PhysicalKey("LShift", Finger("Left", "Ring"), 65, 0, 1),
                 PhysicalKey("Space", Finger("Right", "Thumb"), 100, 1, 1) >>]

(* A description that names one key code twice. *)
Dup3 ==
    [fingers |-> SampleFingers,
     keys |-> << PhysicalKey("Space", Finger("Left", "Thumb"), 100, 0, 0),
                 PhysicalKey("A", Finger("Left", "Index"), 100, 1, 0),
                 PhysicalKey("Space", Finger("Right", "Thumb"), 100, 2, 0) >>]

(* Three rows of seven keys that hold every key the intuitions name. *)
Full21Codes ==
    << "LShift", "Key1", "Key2", "Key3", "Up", "PageUp", "RShift",
       "LControl", "Key4", "Key5", "Key6", "Down", "PageDown", "RControl",
       "LeftBracket", "Key7", "Key8", "Key9", "Left", "Right", "RightBracket" >>

Full21ColumnFingers ==
    << Finger("Left", "Pinky"), Finger("Left", "Ring"), Finger("Left", "Middle"),
       Finger("Left", "Index"), Finger("Right", "Index"), Finger("Right", "Middle"),
       Finger("Right", "Pinky") >>

Full21RowScores == <<50, 100, 85>>

Full21 ==
    [fingers |-> SampleFingers,
     keys |-> [n \in 1..21 |->
                 PhysicalKey(Full21Codes[n], Full21ColumnFingers[((n - 1) % 7) + 1],
                             Full21RowScores[((n - 1) \div 7) + 1], (n - 1) % 7, (n - 1) \div 7)]]

(* Full21 with a Fingers section that leaves out the left pinky. *)
Full21NoPinky ==
    [Full21 EXCEPT !.fingers =
        SelectSeq(SampleFingers, LAMBDA c : c.finger # Finger("Left", "Pinky"))]

(* The frequency tables of the end-to-end example. *)
ExampleStats ==
    [individual_key_counts |-> [k \in {"A", "B"} |-> IF k = "A" THEN 10 ELSE 1],
     consectutive_key_counts |-> [p \in {<<"A", "B">>} |-> 5]]

(* Frequency tables for Full21: digits typed in a row, and the arrows. *)
DigitStats ==
    [individual_key_counts |->
        [k \in {"Key1", "Key2", "Key3", "Left"} |-> IF k = "Key1" THEN 4 ELSE 2],
     consectutive_key_counts |->
        [p \in {<<"Key1", "Key2">>, <<"Key2", "Key3">>, <<"Key2", "Key1">>} |->
            IF p = <<"Key1", "Key2">> THEN 3 ELSE 1]]

(***************************************************************************)
(* State                                                                   *)
(***************************************************************************)
VARIABLES
    keymap,           \* the keyboard description of the run, by its name here
    stats,            \* the Stats of the run
    layout,           \* the Layout operated on: self, or the current layout of the annealing
    other,            \* the second parent of a crossover
    before,           \* history: what the last operation replaced
    last,             \* history: the last operation, and a count that goes with it
    panicked,         \* the run has panicked
    sa,               \* the locals of simmulated_annealing
    call,             \* a call of consecutive_finger_score: its arguments and its result
    driver,           \* the locals of main: the phase, the population, the workers
    doc,              \* a keyboard description on its way through the parser and back
    key_processor     \* the KeyProcessor of process_log

vars == <<keymap, stats, layout, other, before, last, panicked, sa, call, driver, doc,
          key_processor>>

(* No annealing is running; no call is made. *)
NoAnneal == [pc |-> "idle"]
NoCall == [pc |-> "idle"]
NoDriver == [pc |-> "idle"]
NoDoc == [pc |-> "idle"]
NoProcessor == [pc |-> "idle"]

(* The KeymapConfig that parse_keymap_config built. *)
keymap_config ==
    CASE keymap = "Example2" -> Example2
      [] keymap = "Grid4" -> Grid4
      [] keymap = "Dup3" -> Dup3
      [] keymap = "Full21" -> Full21
      [] keymap = "Full21NoPinky" -> Full21NoPinky

NoStats == [individual_key_counts |-> << >>, consectutive_key_counts |-> << >>]

Slots(config) == DOMAIN config.keys

(***************************************************************************)
(* Spec: the genetic operators on a pair of layouts                        *)
(***************************************************************************)
OpsKeymaps == {"Grid4", "Dup3"}

Op(name, n) == [op |-> name, n |-> n]

Init ==
    /\ keymap \in OpsKeymaps
    /\ stats = NoStats
    /\ \E p1, p2 \in Orderings(Slots(keymap_config)) :
          /\ layout = Gen(keymap_config, p1)
          /\ other = Gen(keymap_config, p2)
    /\ before = 0
    /\ last = Op("gen", 0)
    /\ panicked = FALSE
    /\ sa = NoAnneal
    /\ call = NoCall
    /\ driver = NoDriver
    /\ doc = NoDoc
    /\ key_processor = NoProcessor

(* Layout::gen, called by main and by the evolution step *)
GenOp ==
    /\ ~panicked
    /\ \E perm \in Orderings(Slots(keymap_config)) :
          layout' = Gen(keymap_config, perm)
    /\ last' = Op("gen", 0)
    /\ UNCHANGED <<keymap, stats, other, before, panicked, sa, call, driver, doc, key_processor>>

(* Layout::swap *)
SwapOp ==
    /\ ~panicked
    /\ \E i, j \in Slots(keymap_config) :
          /\ layout' = Swap(layout, i, j)
          /\ last' = Op("swap", IF i = j THEN 0 ELSE 1)
    /\ UNCHANGED <<keymap, stats, other, before, panicked, sa, call, driver, doc, key_processor>>

(* Layout::mutate, for every outcome of its Bernoulli trials *)
MutateOp ==
    /\ ~panicked
    /\ \E flips \in [DOMAIN MutatePairs(Len(layout.keys)) -> BOOLEAN] :
          /\ layout' = Mutate(layout, flips)
          /\ last' = Op("mutate", IF \E n \in DOMAIN flips : flips[n] THEN 1 ELSE 0)
    /\ UNCHANGED <<keymap, stats, other, before, panicked, sa, call, driver, doc, key_processor>>

(* Layout::crossover of layout with other; the children replace the parents. *)
CrossoverOp ==
    /\ ~panicked
    /\ \E coin \in [Slots(keymap_config) -> BOOLEAN] :
        LET c1 == CrossChild1(layout, other, coin)
            c2 == CrossChild2(layout, other, coin)
        IN  \E order1 \in Orderings(missing_keys(c1, layout.keys)),
               order2 \in Orderings(missing_keys(c2, layout.keys)) :
                LET r == Crossover(layout, other, coin, order1, order2)
                IN  /\ panicked' = r.panicked
                    /\ layout' = IF r.panicked THEN layout ELSE r.child1
                    /\ other' = IF r.panicked THEN other ELSE r.child2
                    /\ last' = Op("crossover", Len(order1) + Len(order2))
    /\ UNCHANGED <<keymap, stats, before, sa, call, driver, doc, key_processor>>

Next == GenOp \/ SwapOp \/ MutateOp \/ CrossoverOp

Spec == Init /\ [][Next]_vars

(***************************************************************************)
(* Properties of the genetic operators                                     *)
(***************************************************************************)
Seed == GenPool(keymap_config)

NoDup(seq) == \A i, j \in DOMAIN seq : seq[i] = seq[j] => i = j

CountIn(seq, k) == Cardinality({i \in DOMAIN seq : seq[i] = k})

SameMultiset(a, b) ==
    /\ Len(a) = Len(b)
    /\ \A k \in Range(a) \cup Range(b) : CountIn(a, k) = CountIn(b, k)

(* C1: whatever sequence of gen, swap, mutate and crossover (with its repair)
   has run, the keys of every layout are the seed keys of the keyboard, each
   exactly once, when the keyboard names no key code twice. *)
C1_PermutationInvariant ==
    NoDup(Seed) =>
        /\ SameMultiset(layout.keys, Seed) /\ NoDup(layout.keys)
        /\ SameMultiset(other.keys, Seed) /\ NoDup(other.keys)

(* A crossover has just repaired two or more missing keys. *)
C1_Witness == NoDup(Seed) /\ last.op = "crossover" /\ last.n >= 2 /\ ~panicked

ReverseIndexOk(l) ==
    /\ DOMAIN l.key_map = Range(l.keys)
    /\ \A i \in DOMAIN l.keys : l.key_map[l.keys[i]] = i

(* C2: on a duplicate-free key list, after Layout::new and any sequence of
   swaps (those of mutate included), key_map[keys[i]] = i for every slot i and
   key_map has an entry for exactly the keys of the layout. *)
C2_ReverseIndex ==
    NoDup(Seed) => ReverseIndexOk(layout) /\ ReverseIndexOk(other)

(* A swap of two different slots has just run on a duplicate-free layout. *)
C2_Witness == NoDup(Seed) /\ last.op = "swap" /\ last.n = 1

Matches(l1, l2, shift) ==
    {i \in DOMAIN l1.keys : keycode(l1.keys[i], shift) = keycode(l2.keys[i], shift)}

(* C15: for two layouts of the same length n > 0, layout_similarity is
   (slots with equal unshifted identity + slots with equal shifted identity)
   / (2 n), and lies in [0, 1]. *)
C15_Similarity ==
    LET s == layout_similarity(layout, other)
        n == Len(layout.keys)
    IN  (Len(other.keys) = n /\ n > 0) =>
            /\ s.score = Cardinality(Matches(layout, other, FALSE))
                            + Cardinality(Matches(layout, other, TRUE))
            /\ s.of = 2 * n
            /\ 0 <= s.score
            /\ s.score <= s.of

C15_Witness ==
    /\ Len(other.keys) = Len(layout.keys)
    /\ layout_similarity(layout, other).score > 0
    /\ layout_similarity(layout, other).score < layout_similarity(layout, other).of
    /\ last.op = "crossover"

(* The slots at which two layouts hold the same key. *)
SameKeySlots(l1, l2) == {i \in DOMAIN l1.keys : l1.keys[i] = l2.keys[i]}

(* C30: for every key that gen creates from a physical slot, the unshifted
   and the shifted keycode of the key are both the keycode of the slot; so
   the two halves of layout_similarity agree, the similarity is the fraction
   of slots that hold the same key, and for two permutations of a
   duplicate-free seed it is 1 exactly when the two layouts are identical. *)
C30_ShiftedIsSameKey ==
    /\ \A code \in Keycodes :
          /\ keycode(GenKey(code), FALSE) = code
          /\ keycode(GenKey(code), TRUE) = code
    /\ \A i \in DOMAIN layout.keys :
          /\ keycode(layout.keys[i], FALSE) = keycode(layout.keys[i], TRUE)
          /\ \E n \in DOMAIN keymap_config.keys :
                keycode(layout.keys[i], TRUE) = keymap_config.keys[n].code
    /\ (Len(other.keys) = Len(layout.keys) /\ Len(layout.keys) > 0) =>
          LET s == layout_similarity(layout, other)
          IN  /\ Matches(layout, other, FALSE) = SameKeySlots(layout, other)
              /\ Matches(layout, other, TRUE) = SameKeySlots(layout, other)
              /\ s.score = 2 * Cardinality(SameKeySlots(layout, other))
              /\ s.of = 2 * Len(layout.keys)
              /\ NoDup(Seed) => (s.score = s.of <=> layout.keys = other.keys)

(* Two different permutations of a duplicate-free seed share a slot that
   holds a printable key, whose shifted character is not its unshifted one. *)
C30_Witness ==
    /\ NoDup(Seed)
    /\ layout.keys # other.keys
    /\ last.op \in {"swap", "mutate", "crossover"}
    /\ \E i \in SameKeySlots(layout, other) :
          /\ layout.keys[i].kind = "Normal"
          /\ layout.keys[i].normal # layout.keys[i].shifted
    /\ \E i \in DOMAIN layout.keys : layout.keys[i].kind # "Normal"

(***************************************************************************)
(* SpecGenetic: one call of Layout::crossover or of Layout::mutate on       *)
(* layouts of Layout::gen, with what the call worked on                    *)
(***************************************************************************)
(* What the last operation worked on: the children of a crossover before
   their repair and the orders their missing keys were taken in, the keys
   before a mutation and the outcomes of its trials. *)
NoBefore ==
    [child1 |-> << >>, child2 |-> << >>, parent |-> << >>, order1 |-> << >>,
     order2 |-> << >>, keys |-> << >>, flips |-> << >>]

(* The pair of children a call of crossover returned; nothing before the call. *)
NoChildren == [pc |-> "idle", child1 |-> LayoutNew(<< >>), child2 |-> LayoutNew(<< >>)]

InitGenetic ==
    /\ keymap \in OpsKeymaps
    /\ stats = NoStats
    /\ \E p1, p2 \in Orderings(Slots(keymap_config)) :
          /\ layout = Gen(keymap_config, p1)
          /\ other = Gen(keymap_config, p2)
    /\ before = NoBefore
    /\ last = Op("gen", 0)
    /\ panicked = FALSE
    /\ sa = NoAnneal
    /\ call = NoChildren
    /\ driver = NoDriver
    /\ doc = NoDoc
    /\ key_processor = NoProcessor

(* Layout::mutate, for every outcome of its Bernoulli trials *)
MutateCall ==
    /\ last.op = "gen"
    /\ \E flips \in [DOMAIN MutatePairs(Len(layout.keys)) -> BOOLEAN] :
          /\ layout' = Mutate(layout, flips)
          /\ last' = Op("mutate", Cardinality({n \in DOMAIN flips : flips[n]}))
          /\ before' = [NoBefore EXCEPT !.keys = layout.keys, !.flips = flips]
    /\ UNCHANGED <<keymap, stats, other, panicked, sa, call, driver, doc, key_processor>>

(* Layout::crossover of layout (&self) with other (&other): the call returns
   two new layouts and has no other effect. *)
CrossoverCall ==
    /\ last.op = "gen"
    /\ \E coin \in [Slots(keymap_config) -> BOOLEAN] :
        LET c1 == CrossChild1(layout, other, coin)
            c2 == CrossChild2(layout, other, coin)
        IN  \E order1 \in Orderings(missing_keys(c1, layout.keys)),
               order2 \in Orderings(missing_keys(c2, layout.keys)) :
                LET r == Crossover(layout, other, coin, order1, order2)
                IN  /\ panicked' = r.panicked
                    /\ call' = IF r.panicked THEN [NoChildren EXCEPT !.pc = "panicked"]
                                ELSE [pc |-> "returned", child1 |-> r.child1, child2 |-> r.child2]
                    /\ last' = Op("crossover", Len(order1) + Len(order2))
                    /\ before' = [NoBefore EXCEPT !.child1 = c1, !.child2 = c2,
                                                   !.parent = layout.keys,
                                                   !.keys = other.keys,
                                                   !.order1 = order1, !.order2 = order2,
                                                   !.flips = coin]
    /\ UNCHANGED <<keymap, stats, layout, other, sa, driver, doc, key_processor>>

NextGenetic == MutateCall \/ CrossoverCall

SpecGenetic == InitGenetic /\ [][NextGenetic]_vars

(* The repair as the rule words it: the pairs (i, j), i < j, of slots that
   hold equal keys, the first of them in lexicographic order, and the keys
   with the later slot of that pair overwritten, once per missing key. *)
EqualPairs(keys) ==
    {p \in (DOMAIN keys) \X (DOMAIN keys) : p[1] < p[2] /\ keys[p[1]] = keys[p[2]]}

FirstPair(keys) ==
    CHOOSE p \in EqualPairs(keys) :
        \A q \in EqualPairs(keys) : p[1] < q[1] \/ (p[1] = q[1] /\ p[2] <= q[2])

RECURSIVE RepairedByRule(_, _)
RepairedByRule(keys, order) ==
    IF order = << >> \/ EqualPairs(keys) = {} THEN keys
    ELSE RepairedByRule([keys EXCEPT ![FirstPair(keys)[2]] = Head(order)], Tail(order))

RepairFollowsRule(pre, post, parent, order) ==
    /\ post = RepairedByRule(pre, order)
    /\ \A i \in DOMAIN pre : (\A h \in 1..(i - 1) : pre[h] # pre[i]) => post[i] = pre[i]
    /\ Cardinality({i \in DOMAIN pre : post[i] # pre[i]})
          = Cardinality(Range(parent) \ Range(pre))

(* C17: the repair of a crossover child takes, for each missing key, the
   first pair (i, j), i < j, in lexicographic order that holds equal keys and
   overwrites slot j with the missing key: the first occurrence of every key
   keeps its slot, and as many slots change as there were missing keys. *)
C17_RepairRule ==
    (last.op = "crossover" /\ ~panicked) =>
        /\ RepairFollowsRule(before.child1, call.child1.keys, before.parent, before.order1)
        /\ RepairFollowsRule(before.child2, call.child2.keys, before.parent, before.order2)

C17_Witness ==
    /\ last.op = "crossover"
    /\ ~panicked
    /\ Len(before.order1) >= 2
    /\ call.child1.keys # before.child1
    /\ Cardinality(EqualPairs(before.child1)) >= 2

(* The slots of a child that repeat a key of an earlier slot. *)
Surplus(keys) == Len(keys) - Cardinality(Range(keys))

(* C18: the panic of the repair is unreachable when both parents are
   permutations of one duplicate-free key set: the child then has as many
   surplus duplicates as it has missing keys, so every missing key finds a
   duplicate to overwrite. *)
C18_RepairNeverPanics ==
    NoDup(Seed) =>
        /\ ~panicked
        /\ last.op = "crossover" =>
              /\ Surplus(before.child1) = Cardinality(Range(before.parent) \ Range(before.child1))
              /\ Surplus(before.child2) = Cardinality(Range(before.parent) \ Range(before.child2))
              /\ Surplus(before.child1) = Len(before.order1)
              /\ Surplus(before.child2) = Len(before.order2)

C18_Witness ==
    /\ NoDup(Seed)
    /\ last.op = "crossover"
    /\ Surplus(before.child2) >= 2
    /\ NoDup(call.child2.keys)
    /\ ~panicked

(* The unordered pairs of n slots, and the t-th of them in lexicographic order. *)
LexPairs(n) == {p \in (1..n) \X (1..n) : p[1] < p[2]}

LexBefore(p, q) == p[1] < q[1] \/ (p[1] = q[1] /\ p[2] < q[2])

PairOfRank(n, t) ==
    CHOOSE p \in LexPairs(n) : Cardinality({q \in LexPairs(n) : LexBefore(q, p)}) = t - 1

(* The keys after the exchanges of the trials t .. that succeeded, in order. *)
RECURSIVE ExchangedInOrder(_, _, _)
ExchangedInOrder(keys, flips, t) ==
    IF t > Len(flips) THEN keys
    ELSE LET p == PairOfRank(Len(keys), t)
         IN  ExchangedInOrder(
                 IF flips[t] THEN [keys EXCEPT ![p[1]] = keys[p[2]], ![p[2]] = keys[p[1]]]
                 ELSE keys,
                 flips, t + 1)

(* C19: mutate makes one Bernoulli trial for each unordered pair i < j of
   slots, n (n - 1) / 2 trials in lexicographic order, and its result is that
   of the exchanges swap(i, j) of the pairs whose trial succeeded, applied in
   that order; when no trial succeeds (rate 0) the layout is unchanged. *)
C19_MutateTrials ==
    last.op = "mutate" =>
        LET n == Len(before.keys)
        IN  /\ Len(before.flips) * 2 = n * (n - 1)
            /\ layout.keys = ExchangedInOrder(before.keys, before.flips, 1)
            /\ last.n = 0 => layout.keys = before.keys

C19_Witness ==
    /\ last.op = "mutate"
    /\ last.n >= 3
    /\ layout.keys # before.keys
    /\ Len(before.keys) = 4

(* C28: crossover of a layout with an identical layout is the identity: for
   every outcome of the coin flips both children equal the parent, the same
   keys on the same slots, and no repair is made; and a crossover, of equal
   or of different parents, leaves both parents as they were. *)
C28_SelfCrossover ==
    last.op = "crossover" =>
        /\ layout = LayoutNew(before.parent)
        /\ other = LayoutNew(before.keys)
        /\ layout.keys = other.keys =>
              /\ ~panicked
              /\ call.pc = "returned"
              /\ call.child1 = layout
              /\ call.child2 = layout
              /\ before.child1 = layout.keys
              /\ before.child2 = layout.keys
              /\ before.order1 = << >>
              /\ before.order2 = << >>

(* A layout of four slots was crossed with itself, the coin falling both ways. *)
C28_Witness ==
    /\ last.op = "crossover"
    /\ layout.keys = other.keys
    /\ Len(layout.keys) = 4
    /\ call.child1 = layout
    /\ \E i, j \in DOMAIN before.flips : before.flips[i] /\ ~before.flips[j]

(***************************************************************************)
(* SpecScore: the scoring model on a fixed layout, the frequency tables    *)
(* changing one count at a time                                            *)
(***************************************************************************)
(* The number of count changes of a run of SpecScore. *)
MaxBumps == 2

(* The shuffles of gen that SpecScore draws from: the rotations by 0..MaxRotation
   slots, the rotation by one slot the other way, and the reversal. *)
MaxRotation == 1

Rotation(n, r) == [i \in 1..n |-> ((i - 1 + r) % n) + 1]
Reversal(n) == [i \in 1..n |-> n + 1 - i]

ScorePerms(n) ==
    {Rotation(n, r) : r \in 0..MaxRotation} \cup {Rotation(n, n - 1), Reversal(n)}

ScoreKeymaps == {"Example2", "Full21"}

BaseStats(km) == IF km = "Example2" THEN {ExampleStats} ELSE {DigitStats}

(* The key identities whose counts change; the last of each is on no key. *)
BumpCodes(km) ==
    IF km = "Example2" THEN {"A", "B", "C"} ELSE {"Key1", "Key2", "A"}

IndividualNow == layout_individual_key_score(layout, stats, keymap_config)
BigramNow == layout_consecutive_key_score(layout, stats, keymap_config)

(* IntuitionScore of the layout, -1 where intuition_score panics. *)
IntuitionNow ==
    IF IntuitionPanics(layout, keymap_config, intuitions) THEN -1
    ELSE intuition_score(layout, keymap_config, intuitions)

(* The counts and the scores of the layout before a count changes. *)
Snapshot ==
    [stats |-> stats, individual |-> IndividualNow, bigram |-> BigramNow,
     intuition |-> IntuitionNow]

InitScore ==
    /\ keymap \in ScoreKeymaps
    /\ stats \in BaseStats(keymap)
    /\ \E perm \in ScorePerms(Len(keymap_config.keys)) : layout = Gen(keymap_config, perm)
    /\ other = 0
    /\ before = Snapshot
    /\ last = Op("gen", 0)
    /\ panicked = FALSE
    /\ sa = NoAnneal
    /\ call = NoCall
    /\ driver = NoDriver
    /\ doc = NoDoc
    /\ key_processor = NoProcessor

(* One more consecutive use of (k1, k2) in the log: consectutive_key_counts. *)
BumpBigram ==
    /\ last.n < MaxBumps
    /\ \E k1, k2 \in BumpCodes(keymap) :
          stats' = [stats EXCEPT !.consectutive_key_counts =
                       MapInsert(@, <<k1, k2>>, CountOf(@, <<k1, k2>>) + 1)]
    /\ before' = Snapshot
    /\ last' = Op("bump_bigram", last.n + 1)
    /\ UNCHANGED <<keymap, layout, other, panicked, sa, call, driver, doc, key_processor>>

(* One more use of k in the log: individual_key_counts. *)
BumpIndividual ==
    /\ last.n < MaxBumps
    /\ \E k \in BumpCodes(keymap) :
          stats' = [stats EXCEPT !.individual_key_counts = MapInsert(@, k, CountOf(@, k) + 1)]
    /\ before' = Snapshot
    /\ last' = Op("bump_individual", last.n + 1)
    /\ UNCHANGED <<keymap, layout, other, panicked, sa, call, driver, doc, key_processor>>

NextScore == BumpBigram \/ BumpIndividual

SpecScore == InitScore /\ [][NextScore]_vars

(* The end-to-end example: the keyboard, the counts, and no intuitions. *)
InExample == keymap = "Example2" /\ stats = ExampleStats

ExampleFitness(l) == LayoutScoreWith(l, stats, keymap_config, << >>)

BigramBefore == before.bigram

(* The pair whose count the last bump raised sits on two consecutive slots. *)
BumpedPairIsConsecutive ==
    \E i \in 1..(Len(layout.keys) - 1) :
        LET p == <<keycode(layout.keys[i], FALSE), keycode(layout.keys[i + 1], FALSE)>>
        IN  CountOf(stats.consectutive_key_counts, p) > CountOf(before.stats.consectutive_key_counts, p)

(* C5 as stated: raising the count of any one ordered pair of key identities
   strictly raises BigramScore of the fixed layout. *)
C5_Original == last.op = "bump_bigram" => BigramNow > BigramBefore

(* C5 as amended: raising the count of one ordered pair (k1, k2) never lowers
   BigramScore, and raises it strictly exactly when the layout holds k1 and k2
   on consecutive slots i, i + 1 in this order. *)
C5_Amended ==
    last.op = "bump_bigram" =>
        /\ BigramNow >= BigramBefore
        /\ (BigramNow > BigramBefore) <=> BumpedPairIsConsecutive

(* A bump that raised BigramScore. *)
C5_Witness == last.op = "bump_bigram" /\ BigramNow > BigramBefore

(* C6: a step that changes one bigram count, the layout, the individual
   counts and the keyboard staying as they are, leaves IndividualScore and
   IntuitionScore as they were. *)
C6_BigramFrame ==
    last.op = "bump_bigram" =>
        /\ IndividualNow = before.individual
        /\ IntuitionNow = before.intuition

(* A bigram count was raised on a layout whose two other scores are not zero. *)
C6_Witness ==
    /\ last.op = "bump_bigram" /\ BigramNow > BigramBefore
    /\ IndividualNow > 0 /\ IntuitionNow > 0

(* The key identities on the layout, and the tables with an explicit zero
   written for every identity and every ordered pair the tables lack. *)
LayoutCodes == {keycode(layout.keys[i], FALSE) : i \in DOMAIN layout.keys}

ZeroFilledStats ==
    [individual_key_counts |->
        [k \in DOMAIN stats.individual_key_counts \cup LayoutCodes |->
            IF k \in DOMAIN stats.individual_key_counts
            THEN stats.individual_key_counts[k] ELSE 0],
     consectutive_key_counts |->
        [p \in DOMAIN stats.consectutive_key_counts \cup (LayoutCodes \X LayoutCodes) |->
            IF p \in DOMAIN stats.consectutive_key_counts
            THEN stats.consectutive_key_counts[p] ELSE 0]]

(* C12: a key absent from the individual-count table and an ordered pair
   absent from the bigram table are scored as frequency zero, without error:
   both scores are numbers, and they are the scores under the tables that
   hold an explicit zero for every absent key and pair. *)
C12_AbsentCountsAsZero ==
    /\ ~IndividualPanics(layout, keymap_config)
    /\ IndividualNow \in Nat
    /\ BigramNow \in Nat
    /\ IndividualNow = layout_individual_key_score(layout, ZeroFilledStats, keymap_config)
    /\ BigramNow = layout_consecutive_key_score(layout, ZeroFilledStats, keymap_config)

C12_Witness ==
    /\ \E k \in LayoutCodes : k \notin DOMAIN stats.individual_key_counts
    /\ \E i \in 1..(Len(layout.keys) - 1) :
          <<keycode(layout.keys[i], FALSE), keycode(layout.keys[i + 1], FALSE)>>
              \notin DOMAIN stats.consectutive_key_counts
    /\ IndividualNow > 0
    /\ BigramNow > 0
    /\ last.op = "bump_bigram"

(* The keyboard with the finger f on slot n, and the bigram table cut down
   to the ordered pairs that sit on consecutive slots. *)
WithFinger(config, n, f) == [config EXCEPT !.keys[n].finger = f]

PairAt(i) == <<keycode(layout.keys[i], FALSE), keycode(layout.keys[i + 1], FALSE)>>

ForwardPairsOnly ==
    LET fwd == {PairAt(i) : i \in 1..(Len(layout.keys) - 1)}
    IN  [stats EXCEPT !.consectutive_key_counts =
            [p \in DOMAIN stats.consectutive_key_counts \cap fwd |->
                stats.consectutive_key_counts[p]]]

(* C21: BigramScore is the sum, over the n - 1 pairs of consecutive slots
   (i, i + 1) only, of freq(keys[i], keys[i + 1]) x TransitionCost(finger_i,
   finger_i, distance of the two slots): the finger of slot i + 1 alone never
   changes the term of (i, i + 1), and a count of a pair that is on no two
   consecutive slots in this order, the reverse pair included, adds nothing. *)
C21_BigramTerms ==
    LET n == Len(layout.keys)
        cfg == keymap_config
    IN  /\ BigramNow =
              SumSeq([i \in 1..(n - 1) |->
                  CountOf(stats.consectutive_key_counts, PairAt(i))
                    * consecutive_finger_score(cfg.keys[i].finger, cfg.keys[i].finger,
                                               distance(cfg.keys[i], cfg.keys[i + 1]))])
        /\ \A i \in 1..(n - 1) : \A f \in AllFingers :
              ConsecutiveTerm(layout, stats, WithFinger(cfg, i + 1, f), i)
                = ConsecutiveTerm(layout, stats, cfg, i)
        /\ BigramNow = layout_consecutive_key_score(layout, ForwardPairsOnly, cfg)

(* A counted pair lies on two slots of different fingers, and its reverse is
   counted too without being on consecutive slots. *)
C21_Witness ==
    \E i \in 1..(Len(layout.keys) - 1) :
        /\ ConsecutiveTerm(layout, stats, keymap_config, i) > 0
        /\ keymap_config.keys[i].finger # keymap_config.keys[i + 1].finger
        /\ CountOf(stats.consectutive_key_counts, <<PairAt(i)[2], PairAt(i)[1]>>) > 0
        /\ \A h \in 1..(Len(layout.keys) - 1) : PairAt(h) # <<PairAt(i)[2], PairAt(i)[1]>>

(* The two slots of the pair (i, i + 1) are on different hands and apart. *)
CrossHandPair(i) ==
    /\ keymap_config.keys[i].finger.hand # keymap_config.keys[i + 1].finger.hand
    /\ distance(keymap_config.keys[i], keymap_config.keys[i + 1]) > 0

(* synergy(kind, kind) / (d + 1) *)
SameFingerFactor(kind, d) ==
    (((ScoreScale * DistScale) \div (d + DistScale)) * synergy(kind, kind)) \div 10

(* C26: inside BigramScore the cross-hand exemption of TransitionCost is
   never taken: a pair of consecutive slots on different hands at distance
   d > 0 is costed as a transition of the finger of slot i with itself, the
   factor being synergy(kind_i, kind_i) / (d + 1), at most 0.3 / (d + 1),
   and never 1.0. *)
C26_NoCrossHandExemption ==
    \A i \in 1..(Len(layout.keys) - 1) :
        CrossHandPair(i) =>
            LET f == keymap_config.keys[i].finger
                d == distance(keymap_config.keys[i], keymap_config.keys[i + 1])
                count == CountOf(stats.consectutive_key_counts, PairAt(i))
            IN  /\ ConsecutiveTerm(layout, stats, keymap_config, i)
                      = count * SameFingerFactor(f.finger, d)
                /\ SameFingerFactor(f.finger, d) * 10
                      <= 3 * ((ScoreScale * DistScale) \div (d + DistScale))
                /\ SameFingerFactor(f.finger, d) < ScoreScale
                /\ count > 0 => ConsecutiveTerm(layout, stats, keymap_config, i) < count * ScoreScale

(* A counted pair sits on two consecutive slots of different hands. *)
C26_Witness ==
    \E i \in 1..(Len(layout.keys) - 1) :
        /\ CrossHandPair(i)
        /\ ConsecutiveTerm(layout, stats, keymap_config, i) > 0
        /\ last.op = "bump_bigram"

(* The keys an intuition names. *)
RECURSIVE NamedKeys(_)
NamedKeys(int) ==
    IF int.op \in PairOps THEN {int.k1, int.k2}
    ELSE NamedKeys(int.a) \cup NamedKeys(int.b)

(* The layout with the key of slot i taken off: the slot holds a key that no
   intuition names. *)
WithoutKeyAt(l, i) == LayoutNew([l.keys EXCEPT ![i] = key("a")])

(* C27: scoring a layout that lacks a key named by an intuition of the fixed
   set does not count the intuition as unsatisfied: the lookup of the slot
   fails and the scoring call aborts. On the two-key keyboard every
   intuition aborts; on the 21-key keyboard, with any one key taken off the
   layout, exactly the intuitions that name the key abort, and the call
   aborts with them. *)
C27_MissingKeyAborts ==
    /\ keymap = "Example2" =>
          /\ ScorePanics(layout, keymap_config)
          /\ ~IndividualPanics(layout, keymap_config)
          /\ \A n \in DOMAIN intuitions :
                satisfied(intuitions[n], layout, keymap_config) = Abort
    /\ (keymap = "Full21" /\ last.op = "gen") =>
          /\ ~ScorePanics(layout, keymap_config)
          /\ \A i \in DOMAIN layout.keys :
                /\ \E n \in DOMAIN intuitions : layout.keys[i] \in NamedKeys(intuitions[n])
                /\ ScorePanics(WithoutKeyAt(layout, i), keymap_config)
                /\ \A n \in DOMAIN intuitions :
                      (layout.keys[i] \in NamedKeys(intuitions[n]))
                          <=> satisfied(intuitions[n], WithoutKeyAt(layout, i), keymap_config) = Abort

(* The layout lacks the keys of the intuitions, and its two other scores
   are numbers above zero. *)
C27_Witness ==
    /\ keymap = "Example2"
    /\ \E n \in DOMAIN intuitions : \E k \in NamedKeys(intuitions[n]) : k \notin DOMAIN layout.key_map
    /\ IntuitionNow = -1
    /\ IndividualNow > 0
    /\ BigramNow > 0

(* What an intuition says of the layout, its keys being on the keyboard. *)
RECURSIVE Holds(_)
Holds(int) ==
    IF int.op = "And" THEN Holds(int.a) /\ Holds(int.b)
    ELSE IF int.op = "Or" THEN Holds(int.a) \/ Holds(int.b)
    ELSE PairSatisfied(int, layout, keymap_config)

(* C22: IntuitionScore is the number of the top-level intuitions of the
   fixed set that the layout satisfies, And being satisfied iff both of its
   parts are and Or iff at least one is: an integer from 0 to the size of the
   set, with no credit for an And of which one part holds. *)
C22_IntuitionCount ==
    ~IntuitionPanics(layout, keymap_config, intuitions) =>
        /\ IntuitionNow = Cardinality({i \in DOMAIN intuitions : Holds(intuitions[i])})
        /\ IntuitionNow \in 0..Len(intuitions)
        /\ \A i \in DOMAIN intuitions :
              satisfied(intuitions[i], layout, keymap_config) \in {"true", "false"}

(* An And with one part satisfied and an Or with one part satisfied. *)
C22_Witness ==
    /\ ~IntuitionPanics(layout, keymap_config, intuitions)
    /\ IntuitionNow > 0
    /\ \E i \in DOMAIN intuitions :
          /\ intuitions[i].op = "And"
          /\ Holds(intuitions[i].a) /\ ~Holds(intuitions[i].b)
          /\ satisfied(intuitions[i], layout, keymap_config) = "false"
    /\ \E i \in DOMAIN intuitions :
          /\ intuitions[i].op = "Or"
          /\ Holds(intuitions[i].a) # Holds(intuitions[i].b)
          /\ satisfied(intuitions[i], layout, keymap_config) = "true"

(***************************************************************************)
(* SpecCost: consecutive_finger_score on every pair of fingers and on the  *)
(* distances of a grid of keys                                             *)
(***************************************************************************)
(* The largest column or row offset between the two keys of a call. *)
MaxOffset == 3

(* What fn distance returns for two keys of a grid: position comes from
   (c as f64, r as f64), so the offsets are whole numbers. *)
GridDistances ==
    {SqrtScaled(dx * dx + dy * dy) : dx \in 0..MaxOffset, dy \in 0..MaxOffset}

InitCost ==
    /\ keymap = "Grid4"
    /\ stats = NoStats
    /\ layout = Gen(keymap_config, Rotation(Len(keymap_config.keys), 0))
    /\ other = 0
    /\ before = 0
    /\ last = Op("gen", 0)
    /\ panicked = FALSE
    /\ sa = NoAnneal
    /\ \E f1, f2 \in AllFingers, dist \in GridDistances :
          call = [pc |-> "called", f1 |-> f1, f2 |-> f2, distance |-> dist, result |-> 0]
    /\ driver = NoDriver
    /\ doc = NoDoc
    /\ key_processor = NoProcessor

(* consecutive_finger_score(f1, f2, distance) runs and returns. *)
CostReturn ==
    /\ call.pc = "called"
    /\ call' = [call EXCEPT !.pc = "returned",
                            !.result = consecutive_finger_score(call.f1, call.f2, call.distance)]
    /\ UNCHANGED <<keymap, stats, layout, other, before, last, panicked, sa, driver, doc, key_processor>>

NextCost == CostReturn

SpecCost == InitCost /\ [][NextCost]_vars

(* C10: consecutive_finger_score(f1, f2, 0.0) is 1.0 for every pair of
   fingers, it is 1.0 at every distance when f1 and f2 are on different
   hands, and the divisor distance + 1.0 of raw_score is never zero. *)
C10_CostBoundary ==
    /\ call.pc = "returned" /\ call.distance = 0 => call.result = ScoreScale
    /\ call.pc = "returned" /\ call.f1.hand # call.f2.hand => call.result = ScoreScale
    /\ call.pc # "idle" => RawScoreDivisor(call.distance) # 0

(* A call over two hands at a distance above zero has returned. *)
C10_Witness ==
    /\ call.pc = "returned"
    /\ call.f1.hand # call.f2.hand
    /\ call.distance > DistScale

(***************************************************************************)
(* SpecAnneal: fn simmulated_annealing                                     *)
(***************************************************************************)
(* The temperature is counted in steps of the f64 grid.  At the bottom of its
   range the grid of f64 is uniform (one step is 2^-1074), and *= 0.9999
   rounds the product to the nearest step, which (t * 9999 + 5000) \div 10000
   computes for every t of that range.  The model keeps this rounding and
   places the temperature 1.0 at TempScale steps, not at 2^1074 steps. *)
TempScale == 5003

(* temperature *= 0.9999 *)
Cool(t) == (t * 9999 + 5000) \div 10000

(* The largest temperature that *= 0.9999 leaves as it is: 5000 steps, in f64
   5000 * 2^-1074, about 2.47e-320. *)
CoolFloor == Max({t \in 0..TempScale : Cool(t) = t})

(* The slots that rng.gen_range(0..keys.len()) draws i and j from in the model. *)
MaxSwapSlot == 2

SwapSlots(l) == {i \in DOMAIN l.keys : i <= MaxSwapSlot}

(* The values of min_temperature: above 1.0, such that the loop runs two
   times, just above the floor of the cooling, and the floor. *)
MinTemperatures == {TempScale + 1, Cool(TempScale), CoolFloor + 1, CoolFloor}

AnnealKeymaps == {"Full21", "Example2"}

(* The shuffles of gen that the initial layouts come from: those of SpecScore,
   and the one that exchanges the first two slots. *)
AnnealPerms(n) ==
    ScorePerms(n) \cup {[i \in 1..n |-> IF i = 1 THEN 2 ELSE IF i = 2 THEN 1 ELSE i]}

InitAnneal ==
    /\ keymap \in AnnealKeymaps
    /\ stats = IF keymap = "Full21" THEN DigitStats ELSE ExampleStats
    /\ \E perm \in AnnealPerms(Len(keymap_config.keys)) : layout = Gen(keymap_config, perm)
    /\ other = 0
    /\ before = [best_score |-> 0]
    /\ last = Op("gen", 0)
    /\ panicked = FALSE
    /\ \E min_temperature \in MinTemperatures :
          sa = [pc |-> "start", min_temperature |-> min_temperature]
    /\ call = NoCall
    /\ driver = NoDriver
    /\ doc = NoDoc
    /\ key_processor = NoProcessor

(* The test with the comparison turned around. *)
BestUpdatesOnWorse(new_score, best_score) == new_score < best_score
(* A test that makes every candidate the best. *)
BestUpdatesAlways(new_score, best_score) == TRUE
(* if new_score > best_score *)
BestUpdates(new_score, best_score) == new_score > best_score

(* The value of the function: its last expression. *)
ReturnsCurrent(current, best_layout) == current
AnnealReturn(current, best_layout) == best_layout

(* The lines before the loop: the score of the initial layout, which panics
   where layout_score does. *)
AnnealStart ==
    /\ sa.pc = "start"
    /\ IF ScorePanics(layout, keymap_config)
       THEN /\ panicked' = TRUE
            /\ sa' = [pc |-> "aborted", min_temperature |-> sa.min_temperature]
            /\ UNCHANGED before
       ELSE \E score \in {layout_score(layout, stats, keymap_config)} :
                /\ sa' = [pc |-> "loop", min_temperature |-> sa.min_temperature,
                          score |-> score, temperature |-> TempScale,
                          best_layout |-> layout, best_score |-> score,
                          initial_score |-> score, max_seen |-> score]
                /\ before' = [best_layout |-> layout, best_score |-> score,
                              new_score |-> score, layout |-> layout, score |-> score,
                              new_layout |-> layout]
                /\ UNCHANGED panicked
    /\ UNCHANGED <<keymap, stats, layout, other, last, call, driver, doc, key_processor>>

(* The temperature after a pass: temperature *= 0.9999, accepted or not. *)
CoolsOnAccept(t, accepts) == IF accepts THEN Cool(t) ELSE t
NextTemperature(t, accepts) == Cool(t)

(* One pass of the loop.  delta > 0.0 accepts; coin is what gen_bool returns:
   true for delta = 0.0, where its argument is exp(0), and either outcome for
   delta < 0.0.  Both scores
   are of permutations of the same keys, so the second layout_score panics
   nowhere the first did not.  sa.initial_score and sa.max_seen are history. *)
(* What rng.gen_bool((normalized_delta / temperature).exp()) can return where
   it is evaluated: either outcome for a probability below 1, true for the
   probability exp(0) = 1 of delta = 0. *)
TestOutcomes(delta) == IF delta < 0 THEN BOOLEAN ELSE {TRUE}

(* An acceptance that gives a candidate of lower or equal fitness only. *)
AcceptsOnWorseOnly(delta, coin) == delta <= 0 /\ coin

(* delta > 0.0 || rng.gen_bool(..) *)
Accepts(delta, coin) == delta > 0 \/ coin

AnnealStep ==
    /\ sa.pc = "loop"
    /\ \E i, j \in SwapSlots(layout) :
        \E new_layout \in {Swap(layout, i, j)} :
        \E new_score \in {layout_score(new_layout, stats, keymap_config)} :
        \E coin \in TestOutcomes(new_score - sa.score) :
        LET improves == BestUpdates(new_score, sa.best_score)
            delta == new_score - sa.score
            accepts == Accepts(delta, coin)
            temperature == NextTemperature(sa.temperature, accepts)
        IN  /\ layout' = IF accepts THEN new_layout ELSE layout
            /\ sa' = [sa EXCEPT
                        !.best_layout = IF improves THEN new_layout ELSE @,
                        !.best_score = IF improves THEN new_score ELSE @,
                        !.score = IF accepts THEN new_score ELSE @,
                        !.temperature = temperature,
                        !.max_seen = Max({@, new_score}),
                        !.pc = IF temperature < sa.min_temperature THEN "done" ELSE "loop"]
            /\ before' = [best_layout |-> sa.best_layout, best_score |-> sa.best_score,
                          new_score |-> new_score, layout |-> layout, score |-> sa.score,
                          new_layout |-> new_layout]
            /\ last' = Op(IF accepts THEN "accept" ELSE "reject", 0)
    /\ UNCHANGED <<keymap, stats, other, panicked, call, driver, doc, key_processor>>

NextAnneal == AnnealStart \/ AnnealStep

(* The thread of the loop keeps running: its next step is taken. *)
SpecAnneal == InitAnneal /\ [][NextAnneal]_vars /\ WF_vars(NextAnneal)

Running == sa.pc \in {"loop", "done"}

Fitness(l) == layout_score(l, stats, keymap_config)

(* C7: at every point of an annealing run Fitness(best) >= Fitness(initial
   layout), and each pass of the loop either keeps best or replaces it by a
   candidate of strictly greater fitness, so the fitness of best never falls. *)
C7_BestTracking ==
    Running =>
        /\ sa.best_score = Fitness(sa.best_layout)
        /\ sa.best_score >= sa.initial_score
        /\ sa.best_score >= before.best_score
        /\ sa.best_layout # before.best_layout =>
              /\ sa.best_score > before.best_score
              /\ sa.best_score = before.new_score

(* best was raised above the initial layout, and a later candidate that was
   not better left it as it was. *)
C7_Witness ==
    /\ Running
    /\ sa.best_score > sa.initial_score
    /\ before.new_score <= before.best_score
    /\ sa.best_layout = before.best_layout

(* C8: the layout returned has the greatest fitness among the initial layout
   and every candidate of the run, accepted or not. *)
C8_ReturnsBest ==
    sa.pc = "done" => Fitness(AnnealReturn(layout, sa.best_layout)) = sa.max_seen

(* The run ended on a current layout that is worse than the one returned. *)
C8_Witness ==
    /\ sa.pc = "done"
    /\ sa.score < sa.best_score
    /\ sa.best_score > sa.initial_score

C20_Acceptance ==
    (sa.pc \in {"loop", "done"} /\ last.op \in {"accept", "reject"}) =>
        LET delta == before.new_score - before.score
        IN  /\ delta > 0 => last.op = "accept"
            /\ delta = 0 => last.op = "accept"
            /\ last.op = "accept" => layout = before.new_layout /\ sa.score = before.new_score
            /\ last.op = "reject" =>
                  delta < 0 /\ layout = before.layout /\ sa.score = before.score
            /\ layout \in {before.layout, before.new_layout}
            /\ sa.score = Fitness(layout)
            /\ max_possible_score(stats) > 0

(* A candidate of lower fitness has been accepted. *)
C20_Witness ==
    /\ sa.pc = "loop"
    /\ last.op = "accept"
    /\ before.new_score < before.score
    /\ layout = before.new_layout
    /\ layout # before.layout

(* C24: best_score >= score at the start of every pass of the annealing
   loop; so a candidate that replaces best has delta > 0 and becomes the
   current layout in the same pass: best is always a layout the walk visits,
   though the test for a new best comes before the acceptance test. *)
C24_BestIsVisited ==
    sa.pc \in {"loop", "done"} =>
        /\ sa.best_score >= sa.score
        /\ before.best_score >= before.score
        /\ (last.op \in {"accept", "reject"} /\ sa.best_score # before.best_score) =>
              /\ before.new_score - before.score > 0
              /\ last.op = "accept"
              /\ sa.best_layout = before.new_layout
              /\ layout = sa.best_layout
              /\ sa.score = sa.best_score

(* A pass replaced best while the walk continued. *)
C24_Witness ==
    /\ sa.pc = "loop"
    /\ last.op = "accept"
    /\ sa.best_score > before.best_score
    /\ sa.best_layout # before.best_layout
    /\ layout = sa.best_layout

(* Every slot base_score and every finger multiplier is in [0, 1]. *)
UnitScores(config) ==
    /\ \A i \in DOMAIN config.keys : config.keys[i].score \in 0..PctScale
    /\ \A i \in DOMAIN config.fingers : config.fingers[i].score \in 0..PctScale

(* The layout can be scored, its key identities are pairwise distinct and
   the scores of the keyboard are in [0, 1]. *)
Scorable(l) ==
    /\ ~ScorePanics(l, keymap_config)
    /\ NoDup([i \in DOMAIN l.keys |-> keycode(l.keys[i], FALSE)])
    /\ UnitScores(keymap_config)

(* let delta = new_score - score, for the candidate that swaps i and j *)
SwapDelta(i, j) ==
    layout_score(Swap(layout, i, j), stats, keymap_config)
        - layout_score(layout, stats, keymap_config)

(* C25: for a layout of pairwise distinct key identities on a keyboard whose
   slot scores and finger multipliers are in [0, 1], 0 <= layout_score <=
   max_possible_score(stats), the sum of all individual counts, all bigram
   counts and 100 x the number of intuitions; so delta / max_possible_score,
   the normalized delta of annealing, is in [-1, 1] for every candidate. *)
C25_FitnessBounded ==
    Scorable(layout) =>
        \A max \in {max_possible_score(stats)} :
        \A score \in {layout_score(layout, stats, keymap_config)} :
            /\ max > 0
            /\ score >= 0
            /\ score <= max
            /\ \A i, j \in SwapSlots(layout) :
                  i <= j =>
                    \A new_score \in {layout_score(Swap(layout, i, j), stats, keymap_config)} :
                        /\ new_score >= 0
                        /\ new_score <= max
                        /\ new_score - score >= -max
                        /\ new_score - score <= max

(* A scorable layout with counted keys, a counted pair and satisfied
   intuitions, and a candidate of another fitness. *)
C25_Witness ==
    /\ Scorable(layout)
    /\ IndividualNow > 0 /\ BigramNow > 0 /\ IntuitionNow > 0
    /\ last.op \in {"bump_bigram", "bump_individual"}
    /\ \E i, j \in SwapSlots(layout) : SwapDelta(i, j) # 0

(***************************************************************************)
(* SpecDriver: fn main, the hybrid driver                                  *)
(***************************************************************************)
(* The size of the population: (0..1000) in main. *)
PopSize == 2

Members == 1..PopSize

DriverKeymaps == {"Full21", "Full21NoPinky"}

(* What simmulated_annealing returns for an initial layout that it can score:
   a layout met on the walk, of a score not below the initial one. *)
AnnealResults(l) ==
    LET met == {Swap(l, i, j) : i, j \in SwapSlots(l)}
    IN  {l2 \in met : layout_score(l2, stats, keymap_config)
                         >= layout_score(l, stats, keymap_config)}

(* The shuffles of Layout::gen that the driver's runs draw from. *)
DriverPerms(n) ==
    {Rotation(n, 0), [i \in 1..n |-> IF i = 1 THEN 2 ELSE IF i = 2 THEN 1 ELSE i]}

(* What genetic::evolve may put into a slot of the new population: a member
   of the old one, or a layout of Layout::gen. *)
EvolveCandidates(population) ==
    Range(population)
        \cup {Gen(keymap_config, perm) : perm \in DriverPerms(Len(keymap_config.keys))}

(* for_each returns: every member's closure has returned. *)
SkipsJoin(workers) == \A m \in Members : workers[m] # "idle"
AllJoined(workers) == \A m \in Members : workers[m] = "done"

(* main has parsed its arguments. *)
InitDriver ==
    /\ keymap \in DriverKeymaps
    /\ stats = DigitStats
    /\ layout = Gen(keymap_config, Rotation(Len(keymap_config.keys), 0))
    /\ other = 0
    /\ before = 0
    /\ last = Op("gen", 0)
    /\ panicked = FALSE
    /\ sa = NoAnneal
    /\ call = NoCall
    /\ driver = [pc |-> "startup", prev |-> "startup", population |-> << >>,
                 initial |-> << >>,
                 workers |-> [m \in Members |-> "idle"], persisted |-> << >>]
    /\ doc = NoDoc
    /\ key_processor = NoProcessor

(* Lines 44-50: process_log, max_possible_score, parse_keymap_config, and the
   population of Layout::gen.  None of them looks a finger up. *)
DriverStartup ==
    /\ driver.pc = "startup"
    /\ \E population \in [Members -> {Gen(keymap_config, perm) :
                                        perm \in DriverPerms(Len(keymap_config.keys))}] :
          driver' = [driver EXCEPT !.pc = "anneal", !.prev = "startup",
                                   !.population = population, !.initial = population]
    /\ UNCHANGED <<keymap, stats, layout, other, before, last, panicked, sa, call, doc, key_processor>>

(* A thread of the pool takes member m: simmulated_annealing scores the
   initial layout, and panics where layout_score does. *)
WorkerStart(m) ==
    /\ driver.pc = "anneal"
    /\ driver.workers[m] = "idle"
    /\ IF ScorePanics(driver.population[m], keymap_config)
       THEN /\ driver' = [driver EXCEPT !.workers[m] = "panicked"]
            /\ panicked' = TRUE
       ELSE /\ driver' = [driver EXCEPT !.workers[m] = "running"]
            /\ UNCHANGED panicked
    /\ UNCHANGED <<keymap, stats, layout, other, before, last, sa, call, doc, key_processor>>

(* A worker that stores its result in the next member of the population. *)
WorkerWritesNeighbour(m) ==
    /\ driver.pc = "anneal"
    /\ driver.workers[m] = "running"
    /\ \E result \in AnnealResults(driver.population[m]) :
          driver' = [driver EXCEPT !.workers[m] = "done",
                                   !.population[(m % PopSize) + 1] = result]
    /\ UNCHANGED <<keymap, stats, layout, other, before, last, panicked, sa, call, doc, key_processor>>

(* simmulated_annealing returns for member m: *layout = its result. *)
WorkerFinish(m) ==
    /\ driver.pc = "anneal"
    /\ driver.workers[m] = "running"
    /\ \E result \in AnnealResults(driver.population[m]) :
          driver' = [driver EXCEPT !.workers[m] = "done", !.population[m] = result]
    /\ UNCHANGED <<keymap, stats, layout, other, before, last, panicked, sa, call, doc, key_processor>>

(* The panic of a worker is resumed in main once no closure is running. *)
DriverAbort ==
    /\ driver.pc = "anneal"
    /\ \E m \in Members : driver.workers[m] = "panicked"
    /\ \A m \in Members : driver.workers[m] # "running"
    /\ driver' = [driver EXCEPT !.pc = "aborted", !.prev = "anneal"]
    /\ UNCHANGED <<keymap, stats, layout, other, before, last, panicked, sa, call, doc, key_processor>>

(* for_each has returned; genetic::evolve runs and returns. *)
Evolve ==
    /\ driver.pc = "anneal"
    /\ AllJoined(driver.workers)
    /\ \E new_population \in [Members -> EvolveCandidates(driver.population)] :
          driver' = [driver EXCEPT !.pc = "persist", !.prev = "evolve",
                                   !.population = new_population]
    /\ UNCHANGED <<keymap, stats, layout, other, before, last, panicked, sa, call, doc, key_processor>>

(* save_best(&keymap_config, &new_population[0]) *)
SaveBest ==
    /\ driver.pc = "persist"
    /\ driver' = [driver EXCEPT !.pc = "report", !.prev = "persist",
                                !.persisted = driver.population[1]]
    /\ UNCHANGED <<keymap, stats, layout, other, before, last, panicked, sa, call, doc, key_processor>>

(* println! of the statistics; population = new_population; the next pass. *)
Report ==
    /\ driver.pc = "report"
    /\ driver' = [driver EXCEPT !.pc = "anneal", !.prev = "report",
                                !.initial = driver.population,
                                !.workers = [m \in Members |-> "idle"]]
    /\ UNCHANGED <<keymap, stats, layout, other, before, last, panicked, sa, call, doc, key_processor>>

NextDriver ==
    \/ DriverStartup
    \/ \E m \in Members : WorkerStart(m)
    \/ \E m \in Members : WorkerFinish(m)
    \/ DriverAbort
    \/ Evolve
    \/ SaveBest
    \/ Report

SpecDriver == InitDriver /\ [][NextDriver]_vars

(* C11 as stated: a slot whose finger has no FingerConfig entry fails the run
   before the initial population is generated and before any worker starts. *)
C11_FailsFast ==
    panicked =>
        /\ driver.population = << >>
        /\ \A m \in Members : driver.workers[m] = "idle"

(* The phase that ran last and the phase that runs next, as main orders them. *)
PhaseOrder ==
    {<<"startup", "startup">>, <<"startup", "anneal">>, <<"evolve", "persist">>,
     <<"persist", "report">>, <<"report", "anneal">>, <<"anneal", "aborted">>}

WorkerActive(m) == driver.workers[m] = "running"

(* C13: the phases of a generation run in the order anneal-all, evolve,
   persist-best, report, without overlap: evolve has run only once every
   worker of the generation has returned, and neither persistence nor the
   report runs while an annealing worker is active. *)
C13_PhasesInOrder ==
    /\ <<driver.prev, driver.pc>> \in PhaseOrder
    /\ driver.prev = "evolve" => \A m \in Members : driver.workers[m] = "done"
    /\ driver.pc \in {"persist", "report"} => \A m \in Members : ~WorkerActive(m)
    /\ driver.pc # "anneal" => \A m \in Members : ~WorkerActive(m)

C13_Witness ==
    /\ driver.prev = "report"
    /\ driver.persisted # << >>
    /\ \E m \in Members : WorkerActive(m)
    /\ \E m \in Members : driver.workers[m] = "done"

(* C23: in the annealing phase the worker of member k reads and writes member
   k only: whatever the interleaving, a member whose worker has not returned
   is the layout the phase started with, a member whose worker has returned
   is a result of annealing that layout alone, and the size of the population
   is unchanged. *)
C23_WorkersIndependent ==
    driver.pc \in {"anneal", "aborted"} =>
        /\ Len(driver.population) = PopSize
        /\ Len(driver.initial) = PopSize
        /\ \A m \in Members :
              IF driver.workers[m] = "done"
              THEN driver.population[m] \in AnnealResults(driver.initial[m])
              ELSE driver.population[m] = driver.initial[m]

(* One worker has returned a layout other than the one it was given while
   another one is still running. *)
C23_Witness ==
    /\ driver.pc = "anneal"
    /\ \E m, k \in Members :
          /\ driver.workers[m] = "done"
          /\ driver.population[m] # driver.initial[m]
          /\ driver.workers[k] = "running"
          /\ driver.population[k] # driver.initial[m]

(***************************************************************************)
(* layout_format.rs: the keyboard description and its text                 *)
(* A text is the sequence of its lines, a line the sequence of its         *)
(* characters.  A score s of the description is held as the integer v that *)
(* stands for the f64 nearest to v / 100.                                  *)
(***************************************************************************)
(* enum_strings! { Keycode, .. }: the arms <<variant, string>>. *)
KeycodeStrings ==
    << <<"A", <<"A">> >>, <<"B", <<"B">> >>, <<"C", <<"C">> >>, <<"D", <<"D">> >>,
       <<"E", <<"E">> >>, <<"F", <<"F">> >>, <<"G", <<"G">> >>, <<"H", <<"H">> >>,
       <<"I", <<"I">> >>, <<"J", <<"J">> >>, <<"K", <<"K">> >>, <<"L", <<"L">> >>,
       <<"M", <<"M">> >>, <<"N", <<"N">> >>, <<"O", <<"O">> >>, <<"P", <<"P">> >>,
       <<"Q", <<"Q">> >>, <<"R", <<"R">> >>, <<"S", <<"S">> >>, <<"T", <<"T">> >>,
       <<"U", <<"U">> >>, <<"V", <<"V">> >>, <<"W", <<"W">> >>, <<"X", <<"X">> >>,
       <<"Y", <<"Y">> >>, <<"Z", <<"Z">> >>, <<"Key1", <<"1">> >>, <<"Key2", <<"2">> >>,
       <<"Key3", <<"3">> >>, <<"Key4", <<"4">> >>, <<"Key5", <<"5">> >>,
       <<"Key6", <<"6">> >>, <<"Key7", <<"7">> >>, <<"Key8", <<"8">> >>,
       <<"Key9", <<"9">> >>, <<"Key0", <<"0">> >>, <<"Grave", <<"~">> >>,
       <<"Tab", <<"T", "a", "b">> >>, <<"Escape", <<"E", "s", "c">> >>,
       <<"LShift", <<"L", "S", "h">> >>, <<"LControl", <<"L", "C", "t">> >>,
       <<"LAlt", <<"L", "A", "t">> >>, <<"LMeta", <<"L", "M", "t">> >>,
       <<"RShift", <<"R", "S", "h">> >>, <<"RControl", <<"R", "C", "t">> >>,
       <<"RAlt", <<"R", "A", "t">> >>, <<"RMeta", <<"R", "M", "t">> >>,
       <<"CapsLock", <<"C", "a", "p">> >>, <<"Left", <<"<", "-", "-">> >>,
       <<"Right", <<"-", "-", ">">> >>, <<"Backspace", <<"B", "k", "s">> >>,
       <<"Delete", <<"D", "e", "l">> >>, <<"Home", <<"H", "o", "m">> >>,
       <<"End", <<"E", "n", "d">> >>, <<"PageDown", <<"P", "D", "n">> >>,
       <<"PageUp", <<"P", "U", "p">> >>, <<"Enter", <<"E", "t", "r">> >>,
       <<"Space", <<"S", "p", "c">> >>, <<"Up", <<"U", "p">> >>,
       <<"Down", <<"D", "n">> >>, <<"LeftBracket", <<"[">> >>,
       <<"RightBracket", <<"]">> >>, <<"Comma", <<",">> >>, <<"Dot", <<".">> >>,
       <<"Slash", <<"/">> >>, <<"Semicolon", <<";">> >>, <<"Apostrophe", <<"'">> >>,
       <<"BackSlash", <<"\\">> >>, <<"Minus", <<"-">> >>, <<"Equal", <<"=">> >> >>

(* enum_strings! { Hand, .. } and enum_strings! { FingerKind, .. } *)
HandStrings == << <<"Left", <<"L">> >>, <<"Right", <<"R">> >> >>

FingerKindStrings ==
    << <<"Pinky", <<"P">> >>, <<"Ring", <<"R">> >>, <<"Middle", <<"M">> >>,
       <<"Index", <<"I">> >>, <<"Thumb", <<"T">> >> >>

(* map_<type>_to_str and map_str_to_<type>: the first arm that fits. *)
MapToStr(tbl, variant) == MatchArm(tbl, variant)

MapFromStr(tbl, s) ==
    LET hits == {i \in DOMAIN tbl : tbl[i][2] = s}
    IN  IF hits = {} THEN Abort ELSE tbl[Min(hits)][1]

(* str::trim *)
RECURSIVE TrimStart(_)
TrimStart(s) == IF s = << >> \/ Head(s) # " " THEN s ELSE TrimStart(Tail(s))

RECURSIVE TrimEnd(_)
TrimEnd(s) ==
    IF s = << >> \/ s[Len(s)] # " " THEN s ELSE TrimEnd(SubSeq(s, 1, Len(s) - 1))

trim(s) == TrimEnd(TrimStart(s))

(* The first and the last place of a character in a string, NoIndex if none. *)
IndexOf(s, ch) ==
    LET hits == {i \in DOMAIN s : s[i] = ch}
    IN  IF hits = {} THEN NoIndex ELSE Min(hits)

LastIndexOf(s, ch) ==
    LET hits == {i \in DOMAIN s : s[i] = ch}
    IN  IF hits = {} THEN NoIndex ELSE Max(hits)

(* str::split *)
RECURSIVE split(_, _)
split(s, ch) ==
    IF IndexOf(s, ch) = NoIndex THEN <<s>>
    ELSE <<SubSeq(s, 1, IndexOf(s, ch) - 1)>>
            \o split(SubSeq(s, IndexOf(s, ch) + 1, Len(s)), ch)

RECURSIVE Concat(_)
Concat(ss) == IF ss = << >> THEN << >> ELSE Head(ss) \o Concat(Tail(ss))

Digits == <<"0", "1", "2", "3", "4", "5", "6", "7", "8", "9">>

(* What a score that does not parse yields (the unwrap of the Err). *)
NoScore == -1

(* str::parse::<f64> of an unsigned decimal integer, times 100: the only
   numbers the canonical text holds. *)
RECURSIVE ParseDigits(_, _)
ParseDigits(s, acc) ==
    IF s = << >> THEN acc
    ELSE IF IndexOf(Digits, Head(s)) = NoIndex THEN NoScore
    ELSE ParseDigits(Tail(s), acc * 10 + IndexOf(Digits, Head(s)) - 1)

(* fn parse_score: score.parse::<f64>().unwrap() / 100.0 *)
parse_score(s) == IF s = << >> THEN NoScore ELSE ParseDigits(s, 0)

(* i32::to_string of a natural *)
RECURSIVE to_string(_)
to_string(n) ==
    IF n < 10 THEN <<Digits[n + 1]>> ELSE to_string(n \div 10) \o <<Digits[(n % 10) + 1]>>

(* f64: v / 100.0 is the nearest m / 2^e with 2^52 <= m < 2^53, and the
   product (m / 2^e) * 100.0 the f64 nearest to v + d / 2^e, where
   d = 100 m - v 2^e.  All of it is decided on small integers. *)
RECURSIVE Pow2(_)
Pow2(n) == IF n = 0 THEN 1 ELSE 2 * Pow2(n - 1)

RECURSIVE Pow2Mod100(_)
Pow2Mod100(n) == IF n = 0 THEN 1 ELSE (2 * Pow2Mod100(n - 1)) % 100

(* The binary exponent of v and of v / 100, for v >= 1. *)
Log2Floor(v) == Max({p \in 0..30 : Pow2(p) <= v})

Log2FloorOfHundredth(v) ==
    IF v >= 100 THEN Max({k \in 0..23 : 100 * Pow2(k) <= v})
    ELSE 0 - Min({j \in 1..7 : v * Pow2(j) >= 100})

(* d: how far, in units of 2^-e, the product of the rounded quotient lies
   from v (e = 52 - Log2FloorOfHundredth(v)). *)
ProductOffset(v) ==
    LET r == ((v % 100) * Pow2Mod100(52 - Log2FloorOfHundredth(v))) % 100
    IN  IF r < 50 THEN 0 - r ELSE 100 - r

(* Half the distance from v to the f64 below it, in the same units. *)
HalfUlpBelow(v) ==
    LET p == Log2Floor(v)
        k == Log2FloorOfHundredth(v)
    IN  IF v = Pow2(p) THEN Pow2(p - k - 2) ELSE Pow2(p - k - 1)


(* (score * 100.0) as i32, for score = v / 100.0: the product truncated. *)
score_as_i32(v) ==
    IF v = 0 THEN 0
    ELSE IF ProductOffset(v) < 0 /\ 0 - ProductOffset(v) > HalfUlpBelow(v) THEN v - 1
    ELSE v

(* The integer written for the score v: the cast of its f64, or v itself. *)
WrittenScore(v, as_f64) == IF as_f64 THEN score_as_i32(v) ELSE v

(* fn parse_finger: its panics (split_at(1) and the two unwraps), its value. *)
ParseFingerPanics(s) ==
    \/ s = << >>
    \/ MapFromStr(HandStrings, trim(SubSeq(s, 1, 1))) = Abort
    \/ MapFromStr(FingerKindStrings, trim(SubSeq(s, 2, Len(s)))) = Abort

parse_finger(s) ==
    Finger(MapFromStr(HandStrings, trim(SubSeq(s, 1, 1))),
           MapFromStr(FingerKindStrings, trim(SubSeq(s, 2, Len(s)))))

FingersWord == <<"F", "i", "n", "g", "e", "r", "s">>
KeysWord == <<"K", "e", "y", "s">>

(* One line of the Fingers section: split_once(":").unwrap(), parse_finger,
   parse_score. *)
FingerLinePanics(line) ==
    \/ IndexOf(line, ":") = NoIndex
    \/ ParseFingerPanics(trim(SubSeq(line, 1, IndexOf(line, ":") - 1)))
    \/ parse_score(trim(SubSeq(line, IndexOf(line, ":") + 1, Len(line)))) = NoScore

FingerLine(line) ==
    [finger |-> parse_finger(trim(SubSeq(line, 1, IndexOf(line, ":") - 1))),
     score |-> parse_score(trim(SubSeq(line, IndexOf(line, ":") + 1, Len(line))))]

(* The line after the heading "Fingers": skip_while and one next(). *)
FingersStart(text) ==
    LET hits == {i \in DOMAIN text : trim(text[i]) = FingersWord}
    IN  IF hits = {} THEN Len(text) + 1 ELSE Min(hits) + 1

(* The heading "Keys" that ends the section, or the end of the text. *)
KeysAt(text) ==
    LET hits == {i \in FingersStart(text)..Len(text) : trim(text[i]) = KeysWord}
    IN  IF hits = {} THEN Len(text) + 1 ELSE Min(hits)

(* The lines of the Fingers section that are not empty. *)
FingerLines(text) ==
    SelectSeq(SubSeq(text, FingersStart(text), KeysAt(text) - 1),
              LAMBDA line : trim(line) # << >>)

(* fn parser_fingers *)
ParserFingersPanics(text) ==
    \E i \in DOMAIN FingerLines(text) : FingerLinePanics(trim(FingerLines(text)[i]))

parser_fingers(text) ==
    [i \in DOMAIN FingerLines(text) |-> FingerLine(trim(FingerLines(text)[i]))]

(* fn parse_pipe_separated: its two unwraps, and the trimmed cells. *)
PipePanics(line) ==
    \/ IndexOf(line, "|") = NoIndex
    \/ LastIndexOf(line, "|") = IndexOf(line, "|")

parse_pipe_separated(line) ==
    LET cells == split(SubSeq(line, IndexOf(line, "|") + 1, LastIndexOf(line, "|") - 1), "|")
    IN  [c \in DOMAIN cells |-> trim(cells[c])]

(* fn parse_keycodes, fn parse_key_fingers, fn parse_key_scores: an empty
   cell is None, and each panics where a cell that is not empty does. *)
ParseKeycodesPanics(line) ==
    \/ PipePanics(line)
    \/ \E c \in DOMAIN parse_pipe_separated(line) :
          /\ parse_pipe_separated(line)[c] # << >>
          /\ MapFromStr(KeycodeStrings, parse_pipe_separated(line)[c]) = Abort

ParseKeyFingersPanics(line) ==
    \/ PipePanics(line)
    \/ \E c \in DOMAIN parse_pipe_separated(line) :
          /\ parse_pipe_separated(line)[c] # << >>
          /\ ParseFingerPanics(parse_pipe_separated(line)[c])

ParseKeyScoresPanics(line) ==
    \/ PipePanics(line)
    \/ \E c \in DOMAIN parse_pipe_separated(line) :
          /\ parse_pipe_separated(line)[c] # << >>
          /\ parse_score(parse_pipe_separated(line)[c]) = NoScore

(* fn parse_hr: the unwrap and the assert. *)
ParseHrPanics(text, i) == i > Len(text) \/ text[i] = << >> \/ Head(text[i]) # "-"

(* fn parse_row on the lines from i: its panics (parse_hr, the three lines
   as far as they exist, the assert on the lengths, the unwraps of the
   finger and the score of a cell that has a code). *)
ParseRowPanics(text, i) ==
    \/ ParseHrPanics(text, i)
    \/ i + 1 <= Len(text) /\ ParseKeycodesPanics(text[i + 1])
    \/ i + 2 <= Len(text) /\ ParseKeyFingersPanics(text[i + 2])
    \/ /\ i + 3 <= Len(text)
       /\ \/ ParseKeyScoresPanics(text[i + 3])
          \/ Len(parse_pipe_separated(text[i + 1])) # Len(parse_pipe_separated(text[i + 2]))
          \/ Len(parse_pipe_separated(text[i + 2])) # Len(parse_pipe_separated(text[i + 3]))
          \/ \E c \in DOMAIN parse_pipe_separated(text[i + 1]) :
                /\ parse_pipe_separated(text[i + 1])[c] # << >>
                /\ \/ parse_pipe_separated(text[i + 2])[c] = << >>
                   \/ parse_pipe_separated(text[i + 3])[c] = << >>

(* The keys of the row r that parse_row reads from the lines i .. i + 3. *)
RowKeys(text, i, r) ==
    LET codes == parse_pipe_separated(text[i + 1])
        fingers == parse_pipe_separated(text[i + 2])
        scores == parse_pipe_separated(text[i + 3])
    IN  Concat([col \in DOMAIN codes |->
            IF codes[col] = << >> THEN << >>
            ELSE << PhysicalKey(MapFromStr(KeycodeStrings, codes[col]),
                                parse_finger(fingers[col]),
                                parse_score(scores[col]), col - 1, r) >>])

(* The rows parse_row returns before it returns None: four lines each. *)
NumRows(text) ==
    IF KeysAt(text) >= Len(text) THEN 0 ELSE (Len(text) - KeysAt(text)) \div 4

(* fn parser_keys *)
ParserKeysPanics(text) ==
    \E r \in 0..NumRows(text) : ParseRowPanics(text, KeysAt(text) + 1 + 4 * r)

parser_keys(text) ==
    Concat([n \in 1..NumRows(text) |->
        RowKeys(text, KeysAt(text) + 1 + 4 * (n - 1), n - 1)])

(* fn parse_keymap_config *)
ParsePanics(text) == ParserFingersPanics(text) \/ ParserKeysPanics(text)

parse_keymap_config(text) == [fingers |-> parser_fingers(text), keys |-> parser_keys(text)]

(* An item that is None, and the string of a finger. *)
NoItem == << >>

FingerString(f) == MapToStr(HandStrings, f.hand) \o MapToStr(FingerKindStrings, f.finger)

(* fn write_separated, the line without its newline: " x |" for an item of
   one character, the item padded to three and "|" otherwise, "   |" for None. *)
write_separated(items) ==
    <<"|">> \o Concat([n \in DOMAIN items |->
        IF items[n] = NoItem THEN <<" ", " ", " ", "|">>
        ELSE IF Len(items[n]) = 1 THEN <<" ", items[n][1], " ", "|">>
        ELSE items[n] \o [k \in 1..(3 - Len(items[n])) |-> " "] \o <<"|">>])

(* The line "-" followed by "----" for each column. *)
HrLine(cols) == [k \in 1..(1 + 4 * cols) |-> "-"]

(* grid[r][c]: the last key of the keyboard at the position, NoIndex if none. *)
GridAt(keys, r, c) ==
    LET hits == {n \in DOMAIN keys : keys[n].position = <<c, r>>}
    IN  IF hits = {} THEN NoIndex ELSE Max(hits)

(* keymap_config_to_str panics: max().unwrap() of a keyboard without keys. *)
ToStrPanics(config) == config.keys = << >>

(* The three lines of a row of the grid, after its rule. *)
RowLines(config, r, cols, as_f64) ==
    LET at(c) == GridAt(config.keys, r, c)
    IN  << HrLine(cols),
           write_separated([c \in 1..cols |->
               IF at(c - 1) = NoIndex THEN NoItem
               ELSE MapToStr(KeycodeStrings, config.keys[at(c - 1)].code)]),
           write_separated([c \in 1..cols |->
               IF at(c - 1) = NoIndex THEN NoItem
               ELSE FingerString(config.keys[at(c - 1)].finger)]),
           write_separated([c \in 1..cols |->
               IF at(c - 1) = NoIndex THEN NoItem
               ELSE to_string(WrittenScore(config.keys[at(c - 1)].score, as_f64))]) >>

(* The text of a description; its scores are written from their f64 (as_f64)
   or as the integers they stand for. *)
TextOf(config, as_f64) ==
    LET rows == Max({config.keys[n].position[2] : n \in DOMAIN config.keys}) + 1
        cols == Max({config.keys[n].position[1] : n \in DOMAIN config.keys}) + 1
    IN  <<FingersWord>>
        \o [n \in DOMAIN config.fingers |->
               FingerString(config.fingers[n].finger) \o <<":", " ">>
                   \o to_string(WrittenScore(config.fingers[n].score, as_f64))]
        \o << << >>, KeysWord >>
        \o Concat([r \in 1..rows |-> RowLines(config, r - 1, cols, as_f64)])
        \o <<HrLine(cols)>>

(* The canonical text of a description: each score as the integer it stands for. *)
CanonicalText(config) == TextOf(config, FALSE)

(* fn keymap_config_to_str *)
keymap_config_to_str(config) == TextOf(config, TRUE)

(***************************************************************************)
(* SpecFormat: a canonical text is parsed and written again                *)
(***************************************************************************)
MaxRows == 2
MaxCols == 2

(* The keys of the descriptions, by the place they take in the grid; scores
   of one, two and three digits, codes of one, two and three characters. *)
KeyPool ==
    << [code |-> "A", finger |-> Finger("Left", "Pinky"), score |-> 29],
       [code |-> "Tab", finger |-> Finger("Left", "Ring"), score |-> 100],
       [code |-> "Up", finger |-> Finger("Right", "Index"), score |-> 5],
       [code |-> "Minus", finger |-> Finger("Right", "Pinky"), score |-> 75],
       [code |-> "Right", finger |-> Finger("Right", "Thumb"), score |-> 58],
       [code |-> "Key1", finger |-> Finger("Left", "Index"), score |-> 50],
       [code |-> "BackSlash", finger |-> Finger("Left", "Middle"), score |-> 57],
       [code |-> "Space", finger |-> Finger("Left", "Thumb"), score |-> 0],
       [code |-> "Grave", finger |-> Finger("Right", "Ring"), score |-> 85] >>

FingerTables ==
    { SampleFingers,
      << [finger |-> Finger("Left", "Index"), score |-> 100] >>,
      << [finger |-> Finger("Left", "Index"), score |-> 29],
         [finger |-> Finger("Right", "Pinky"), score |-> 7] >> }

(* The keyboard of rows x cols places of which the places in cells hold a
   key, in the order parser_keys reads them. *)
GridKeys(rows, cols, cells) ==
    Concat([n \in 1..(rows * cols) |->
        IF n \notin cells THEN << >>
        ELSE LET k == KeyPool[((n - 1) % Len(KeyPool)) + 1]
             IN  << PhysicalKey(k.code, k.finger, k.score,
                                (n - 1) % cols, (n - 1) \div cols) >>])

(* The descriptions whose text the serializer can emit: a key in the last
   row and a key in the last column. *)
Descriptions ==
    {[fingers |-> f, keys |-> GridKeys(rows, cols, cells)] :
        f \in FingerTables,
        <<rows, cols, cells>> \in
            {t \in (1..MaxRows) \X (1..MaxCols) \X SUBSET (1..(MaxRows * MaxCols)) :
                /\ t[3] \subseteq 1..(t[1] * t[2])
                /\ \E n \in t[3] : (n - 1) \div t[2] = t[1] - 1
                /\ \E n \in t[3] : (n - 1) % t[2] = t[2] - 1}}

NoConfig == [fingers |-> << >>, keys |-> << >>]

InitFormat ==
    /\ keymap = "Grid4"
    /\ stats = NoStats
    /\ layout = Gen(keymap_config, Rotation(Len(keymap_config.keys), 0))
    /\ other = 0
    /\ before = 0
    /\ last = Op("gen", 0)
    /\ panicked = FALSE
    /\ sa = NoAnneal
    /\ call = NoCall
    /\ driver = NoDriver
    /\ key_processor = NoProcessor
    /\ \E d \in Descriptions :
          doc = [pc |-> "text", text |-> CanonicalText(d), config |-> NoConfig, out |-> << >>]

(* parse_keymap_config(&text) *)
ParseDoc ==
    /\ doc.pc = "text"
    /\ IF ParsePanics(doc.text)
       THEN /\ doc' = [doc EXCEPT !.pc = "aborted"]
            /\ panicked' = TRUE
       ELSE /\ doc' = [doc EXCEPT !.pc = "parsed", !.config = parse_keymap_config(doc.text)]
            /\ UNCHANGED panicked
    /\ UNCHANGED <<keymap, stats, layout, other, before, last, sa, call, driver, key_processor>>

(* keymap_config_to_str(&config) *)
WriteDoc ==
    /\ doc.pc = "parsed"
    /\ IF ToStrPanics(doc.config)
       THEN /\ doc' = [doc EXCEPT !.pc = "aborted"]
            /\ panicked' = TRUE
       ELSE /\ doc' = [doc EXCEPT !.pc = "written", !.out = keymap_config_to_str(doc.config)]
            /\ UNCHANGED panicked
    /\ UNCHANGED <<keymap, stats, layout, other, before, last, sa, call, driver, key_processor>>

NextFormat == ParseDoc \/ WriteDoc

SpecFormat == InitFormat /\ [][NextFormat]_vars

(* C16 as stated: the text written from the parse of a canonical text is
   that text, character for character. *)
C16_RoundTrip == doc.pc = "written" => doc.out = doc.text

(* The scores of a description that the f64 product gives back. *)
ExactScores(config) ==
    /\ \A n \in DOMAIN config.fingers : score_as_i32(config.fingers[n].score) = config.fingers[n].score
    /\ \A n \in DOMAIN config.keys : score_as_i32(config.keys[n].score) = config.keys[n].score

(* Apart from the scores it writes, the round trip gives the text back; and
   every canonical text is parsed without a panic to a description whose
   canonical text it is. *)
RoundTripOfExactScores ==
    /\ doc.pc = "written" /\ ExactScores(doc.config) => doc.out = doc.text
    /\ doc.pc = "written" => CanonicalText(doc.config) = doc.text
    /\ ~panicked

(***************************************************************************)
(* lib.rs: the aggregation of the key log into Stats                       *)
(***************************************************************************)
(* Stats::new *)
StatsNew ==
    [total_log_lines |-> 0,
     char_counts |-> EmptyMap,
     consecutive_char_counts |-> EmptyMap,
     individual_key_counts |-> EmptyMap,
     consectutive_key_counts |-> EmptyMap,
     simultaneous_key_counts |-> EmptyMap]

(* Option<char>::None *)
NoChar == ""

(* KeyProcessor::new *)
KeyProcessorNew == [prev_keys |-> {}, keys |-> {}, prev_char |-> NoChar]

(* fn translate_key_to_char, the arms of the keys A, B, Key1 and Space; the
   last arm returns None. *)
TranslateArms ==
    << << <<"A", TRUE>>, "A" >>, << <<"B", TRUE>>, "B" >>,
       << <<"A", FALSE>>, "a" >>, << <<"B", FALSE>>, "b" >>,
       << <<"Key1", TRUE>>, "!" >>, << <<"Key1", FALSE>>, "1" >>,
       << <<"Space", TRUE>>, " " >>, << <<"Space", FALSE>>, " " >> >>

translate_key_to_char(key_code, shift_held) ==
    LET c == MatchArm(TranslateArms, <<key_code, shift_held>>)
    IN  IF c = Abort THEN NoChar ELSE c

(* *entry(k).or_insert(0) += 1 *)
CountUp(counts, k) == MapInsert(counts, k, CountOf(counts, k) + 1)

(* for prev in prev_keys { *entry((prev, key_code)).or_insert(0) += 1 }: the
   pairs are distinct, so the order of the HashSet does not matter. *)
CountUpPairs(counts, prev_keys, key_code) ==
    LET pairs == {<<prev, key_code>> : prev \in prev_keys}
    IN  [p \in (DOMAIN counts) \cup pairs |->
            IF p \in pairs THEN CountOf(counts, p) + 1 ELSE counts[p]]

(* The tail of process_key: the keys held together, counted when more than
   one. The sorted Vec of the held keys is modelled by their set. *)
CountHeld(st, keys) ==
    IF Cardinality(keys) > 1
    THEN [st EXCEPT !.simultaneous_key_counts = CountUp(@, keys)]
    ELSE st

(* process_key that counts a key only when it was not held already. *)
ProcessKeyCountsNewOnly(kp, st, key_code, press) ==
    IF press
    THEN LET keys == kp.keys \cup {key_code}
             shift_held == "LShift" \in keys \/ "RShift" \in keys
             c == translate_key_to_char(key_code, shift_held)
             st1 == [st EXCEPT
                        !.individual_key_counts =
                            IF key_code \in kp.keys THEN @ ELSE CountUp(@, key_code),
                        !.consectutive_key_counts = CountUpPairs(@, kp.prev_keys, key_code),
                        !.char_counts = IF c = NoChar THEN @ ELSE CountUp(@, c),
                        !.consecutive_char_counts =
                            IF c = NoChar \/ kp.prev_char = NoChar THEN @
                            ELSE CountUp(@, <<kp.prev_char, c>>)]
         IN  [key_processor |-> [prev_keys |-> keys, keys |-> keys,
                                 prev_char |-> IF c = NoChar THEN kp.prev_char ELSE c],
              stats |-> CountHeld(st1, keys)]
    ELSE LET keys == kp.keys \ {key_code}
         IN  [key_processor |-> [kp EXCEPT !.keys = keys],
              stats |-> CountHeld(st, keys)]

(* KeyProcessor::process_key: [key_processor, stats] after the call *)
process_key(kp, st, key_code, press) ==
    IF press
    THEN LET keys == kp.keys \cup {key_code}
             shift_held == "LShift" \in keys \/ "RShift" \in keys
             c == translate_key_to_char(key_code, shift_held)
             st1 == [st EXCEPT
                        !.individual_key_counts = CountUp(@, key_code),
                        !.consectutive_key_counts = CountUpPairs(@, kp.prev_keys, key_code),
                        !.char_counts = IF c = NoChar THEN @ ELSE CountUp(@, c),
                        !.consecutive_char_counts =
                            IF c = NoChar \/ kp.prev_char = NoChar THEN @
                            ELSE CountUp(@, <<kp.prev_char, c>>)]
         IN  [key_processor |-> [prev_keys |-> keys, keys |-> keys,
                                 prev_char |-> IF c = NoChar THEN kp.prev_char ELSE c],
              stats |-> CountHeld(st1, keys)]
    ELSE LET keys == kp.keys \ {key_code}
         IN  [key_processor |-> [kp EXCEPT !.keys = keys],
              stats |-> CountHeld(st, keys)]

(***************************************************************************)
(* SpecLog: process_log, one line of the log at a time                     *)
(***************************************************************************)
(* The number of lines of the log. *)
MaxLines == 5

(* The key codes the lines of the log name. *)
LogKeys == {"A", "B", "LShift"}

InitLog ==
    /\ keymap = "Grid4"
    /\ stats = StatsNew
    /\ layout = 0
    /\ other = 0
    /\ before = [stats |-> StatsNew, key_processor |-> KeyProcessorNew, key_code |-> ""]
    /\ last = Op("new", 0)
    /\ panicked = FALSE
    /\ sa = NoAnneal
    /\ call = NoCall
    /\ driver = NoDriver
    /\ doc = NoDoc
    /\ key_processor = KeyProcessorNew

(* One pass of the loop of process_log over a line "<key_code> <press>";
   last.n counts the lines whose press is "1". *)
ProcessLine(press) ==
    /\ stats.total_log_lines < MaxLines
    /\ \E key_code \in LogKeys :
        \E r \in {process_key(key_processor,
                               [stats EXCEPT !.total_log_lines = @ + 1], key_code, press)} :
            /\ stats' = r.stats
            /\ key_processor' = r.key_processor
            /\ before' = [stats |-> stats, key_processor |-> key_processor,
                          key_code |-> key_code]
            /\ last' = Op(IF press THEN "press" ELSE "release",
                          IF press THEN last.n + 1 ELSE last.n)
    /\ UNCHANGED <<keymap, layout, other, panicked, sa, call, driver, doc>>

PressLine == ProcessLine(TRUE)
ReleaseLine == ProcessLine(FALSE)

NextLog == PressLine \/ ReleaseLine

SpecLog == InitLog /\ [][NextLog]_vars

(* C29: after any sequence of press and release events the sum of all
   individual_key_counts is the number of press events processed; a press
   raises the count of the pressed key by exactly 1 and no other count of
   the table; a release changes none of individual_key_counts,
   consectutive_key_counts, char_counts and prev_keys. *)
C29_PressesCounted ==
    /\ SumOver(stats.individual_key_counts, DOMAIN stats.individual_key_counts) = last.n
    /\ last.op = "press" =>
          \A k \in LogKeys :
              CountOf(stats.individual_key_counts, k)
                = CountOf(before.stats.individual_key_counts, k)
                    + (IF k = before.key_code THEN 1 ELSE 0)
    /\ last.op = "release" =>
          /\ stats.individual_key_counts = before.stats.individual_key_counts
          /\ stats.consectutive_key_counts = before.stats.consectutive_key_counts
          /\ stats.char_counts = before.stats.char_counts
          /\ key_processor.prev_keys = before.key_processor.prev_keys

(* A key was pressed twice without a release between, and the release of
   one of three held keys was counted as two keys held together. *)
C29_Witness ==
    /\ last.op = "release"
    /\ \E k \in LogKeys : CountOf(stats.individual_key_counts, k) >= 2
                              /\ last.n > Cardinality(key_processor.prev_keys)
    /\ stats.simultaneous_key_counts # before.stats.simultaneous_key_counts
    /\ key_processor.keys # before.key_processor.keys
    /\ stats.consectutive_key_counts # EmptyMap

====
